---- MODULE Spec2Model ----
(***************************************************************************)
(* Model of the minisource/comment service: the comment engine             *)
(* (internal/usecase/comment_usecase.go), the comment and settings         *)
(* repositories and the store semantics they rely on (MongoDB documents,   *)
(* $set / $inc updates, omitempty encoding, the unique settings index).    *)
(***************************************************************************)
EXTENDS Integers, Sequences, FiniteSets, TLC

VARIABLES
    comments,     \* the "comments" collection: ObjectID -> document
    nextID,       \* the next ObjectID the store hands out on insert
    settings,     \* the "settings" collection, in insertion (natural) order
    resp,         \* the last operation: its request, its result, what it logged
    everLogged,   \* a best-effort counter update has failed and was logged
    ops,          \* edits, deletions, moderations and pins run so far
    calls,        \* the calls in flight: where each is and what it has read
    indexes,      \* the indexes of the settings collection made at startup
    reactions,    \* the reactions collection
    reports,      \* the reports collection
    notifier,     \* the notifier client the use case was built with
    visitors,     \* the rate limiter's map: key -> count and lastSeen
    clock,        \* the time now, in ticks
    served        \* the requests the rate limiter has answered, in order

vars ==
    <<comments, nextID, settings, resp, everLogged, ops, calls, indexes, reactions, reports,
      notifier, visitors, clock, served>>

----------------------------------------------------------------------------
(* Bounds of the model *)

MaxComments == 2

MaxThread == 3

MaxOps == 1

MaxCounted == 3

MaxDeletes == 2

MaxEdited == 1

MaxEdits == 2

MaxListed == 2

MaxModerations == 1

MaxCallers == 3

MaxLost == 2

MaxInFlight == 1

MaxModerated == 1

MaxModOps == 2

MaxValidated == 2

MaxRefused == 1

MaxRefusedOps == 2

MaxIdentified == 2

MaxReacted == 1

MaxReacting == 2

MaxNotified == 2

MaxNotifyOps == 1

MaxFramed == 2

MaxFrameOps == 2

MaxReplied == 4

MaxReplyOps == 2

MaxPurged == 3

MaxPurgeOps == 2

MaxAttached == 2

MaxAttachOps == 2

MaxFiltered == 1

MaxFilterOps == 2

MaxTracked == 1

MaxHoused == 2

MaxSettling == 2

\* cfg.Max and cfg.Window of the rate limiter of this deployment, the window
\* in ticks of the clock
Max == 2

Window == 2

MaxTime == 5

MaxRequests == 4

----------------------------------------------------------------------------
(* Values *)

NoID == 0          \* a nil *primitive.ObjectID / an empty ID string

InvalidID == -1    \* an ID string that is not valid hex

StatusPending == "pending"

StatusApproved == "approved"

StatusRejected == "rejected"

StatusSpam == "spam"

Statuses == {StatusPending, StatusApproved, StatusRejected, StatusSpam}

\* cfg.Moderation of this deployment
BadWordsEnabled == TRUE

BadWordsList == <<"spam", "scam", "xxx", "porn">>

\* A content is a sequence of words separated by single spaces; the words
\* are "ok", "scam", "SCAM" and "ugly".
ToLower(w) == IF w = "SCAM" THEN "scam" ELSE w

WordLen(w) == CASE w = "ok" -> 2 [] w = "ugly" -> 4 [] OTHER -> 4

RECURSIVE SumLen(_)
SumLen(c) == IF c = <<>> THEN 0 ELSE WordLen(Head(c)) + SumLen(Tail(c))

\* len(req.Content): the bytes of the words and of the spaces between them
ContentLen(c) == IF c = <<>> THEN 0 ELSE SumLen(c) + (Len(c) - 1)

----------------------------------------------------------------------------
(* Settings repository *)

DefaultMaxReplyDepth == 5

DefaultMaxCommentLength == 5000

\* A time.Time: the milliseconds and the part below a millisecond. The clock
\* of the model stands at millisecond 1; the zero time has millisecond 0.
ZeroTime == <<0, 0>>

\* the part of time.Now() below a millisecond: none, or some
SubMillis == {0, 1}

Now(sub) == <<1, sub>>

\* A BSON datetime holds milliseconds: what a time.Time is once stored
EncodeTime(t) == <<t[1], 0>>

DefaultMaxAttachments == 3

DefaultSettings(id, tenantID, resourceType, now) ==
    [ID |-> id, TenantID |-> tenantID, ResourceType |-> resourceType,
     CreatedAt |-> now, UpdatedAt |-> now,
     RequireApproval |-> TRUE, AllowAnonymous |-> FALSE, AllowReplies |-> TRUE,
     MaxReplyDepth |-> DefaultMaxReplyDepth,
     MaxCommentLength |-> DefaultMaxCommentLength,
     AllowAttachments |-> FALSE, MaxAttachments |-> DefaultMaxAttachments,
     CommentsEnabled |-> TRUE, NotifyOnNewComment |-> TRUE, NotifyOnReply |-> TRUE,
     BadWordsFilter |-> TRUE, CustomBadWords |-> <<>>]

\* The document an upsert creates holds the filter's fields and the fields
\* that were $set; every other field decodes to Go's zero value.
ZeroSettings(id, tenantID, resourceType) ==
    [ID |-> id, TenantID |-> tenantID, ResourceType |-> resourceType,
     CreatedAt |-> ZeroTime, UpdatedAt |-> ZeroTime,
     RequireApproval |-> FALSE, AllowAnonymous |-> FALSE, AllowReplies |-> FALSE,
     MaxReplyDepth |-> 0, MaxCommentLength |-> 0,
     AllowAttachments |-> FALSE, MaxAttachments |-> 0,
     CommentsEnabled |-> FALSE, NotifyOnNewComment |-> FALSE, NotifyOnReply |-> FALSE,
     BadWordsFilter |-> FALSE, CustomBadWords |-> <<>>]

\* A SettingsRequest: every field is a pointer, <<>> when nil and <<v>> when set.
NoFields ==
    [RequireApproval |-> <<>>, AllowAnonymous |-> <<>>, AllowReplies |-> <<>>,
     MaxReplyDepth |-> <<>>, MaxCommentLength |-> <<>>, CommentsEnabled |-> <<>>,
     AllowAttachments |-> <<>>, MaxAttachments |-> <<>>,
     NotifyOnNewComment |-> <<>>, NotifyOnReply |-> <<>>,
     BadWordsFilter |-> <<>>, CustomBadWords |-> <<>>]

Opt(p, old) == IF p = <<>> THEN old ELSE p[1]

\* a $set that also writes the zero value of every field the request lacks
ApplySetReplacing(doc, req) ==
    [doc EXCEPT !.UpdatedAt = EncodeTime(Now(1)),
                !.RequireApproval = Opt(req.RequireApproval, FALSE),
                !.AllowAnonymous = Opt(req.AllowAnonymous, FALSE),
                !.AllowReplies = Opt(req.AllowReplies, FALSE),
                !.MaxReplyDepth = Opt(req.MaxReplyDepth, 0),
                !.MaxCommentLength = Opt(req.MaxCommentLength, 0),
                !.AllowAttachments = Opt(req.AllowAttachments, FALSE),
                !.MaxAttachments = Opt(req.MaxAttachments, 0),
                !.CommentsEnabled = Opt(req.CommentsEnabled, FALSE),
                !.NotifyOnNewComment = Opt(req.NotifyOnNewComment, FALSE),
                !.NotifyOnReply = Opt(req.NotifyOnReply, FALSE),
                !.BadWordsFilter = Opt(req.BadWordsFilter, FALSE),
                !.CustomBadWords = Opt(req.CustomBadWords, <<>>)]

\* bson.M{"$set": update} with updated_at and only the supplied fields in
\* update
ApplySet(doc, req) ==
    [doc EXCEPT !.UpdatedAt = EncodeTime(Now(1)),
                !.RequireApproval = Opt(req.RequireApproval, @),
                !.AllowAnonymous = Opt(req.AllowAnonymous, @),
                !.AllowReplies = Opt(req.AllowReplies, @),
                !.MaxReplyDepth = Opt(req.MaxReplyDepth, @),
                !.MaxCommentLength = Opt(req.MaxCommentLength, @),
                !.AllowAttachments = Opt(req.AllowAttachments, @),
                !.MaxAttachments = Opt(req.MaxAttachments, @),
                !.CommentsEnabled = Opt(req.CommentsEnabled, @),
                !.NotifyOnNewComment = Opt(req.NotifyOnNewComment, @),
                !.NotifyOnReply = Opt(req.NotifyOnReply, @),
                !.BadWordsFilter = Opt(req.BadWordsFilter, @),
                !.CustomBadWords = Opt(req.CustomBadWords, @)]

\* FindOne by (tenant_id, resource_type): the index of the first matching
\* document in natural order, 0 for mongo.ErrNoDocuments
FindOne(docs, tenantID, resourceType) ==
    LET hits == {i \in 1..Len(docs) : docs[i].TenantID = tenantID
                                      /\ docs[i].ResourceType = resourceType}
    IN IF hits = {} THEN 0 ELSE CHOOSE i \in hits : \A j \in hits : i <= j

\* The index CreateIndexes makes on the settings collection, after the
\* indexes of the comments, reactions and reports collections
SettingsIndexes == {"idx_tenant_settings"}

\* idx_tenant_settings, unique on (tenant_id, resource_type): with it an
\* insert of a second document with the key is a duplicate-key error
IsDuplicateKey(docs, doc) ==
    /\ "idx_tenant_settings" \in indexes
    /\ FindOne(docs, doc.TenantID, doc.ResourceType) # 0

\* The document the driver writes for a settings struct
Encoded(doc) == [doc EXCEPT !.CreatedAt = EncodeTime(@), !.UpdatedAt = EncodeTime(@)]

\* InsertOne on the settings collection: the collection afterwards
InsertOne(docs, doc) ==
    IF IsDuplicateKey(docs, doc) THEN docs ELSE Append(docs, Encoded(doc))

\* GetOrCreate run without interleaving: the record it returns and the
\* collection it leaves. The callers in the comment engine read the policy
\* fields of the record only.
GetOrCreate(docs, tenantID, resourceType) ==
    LET i == FindOne(docs, tenantID, resourceType)
        d == DefaultSettings(Len(docs) + 1, tenantID, resourceType, Now(1))
    IN IF i # 0 THEN [settings |-> docs[i], docs |-> docs]
       ELSE [settings |-> d, docs |-> InsertOne(docs, d)]

----------------------------------------------------------------------------
(* Calls in flight *)

\* The calls that can be in flight together
Callers == 1..MaxCallers

\* A call: where it is, the operation and its arguments, what it has read
\* or built, what it returned, and whether it has retried
Call(pc, op, arg, read, ret, retried) ==
    [pc |-> pc, op |-> op, arg |-> arg, read |-> read, ret |-> ret, retried |-> retried]

Idle == Call("idle", "", <<>>, <<>>, <<>>, FALSE)

\* GetOrCreate, first step: FindOne; when no document is found the default
\* settings are built, stamped with the time now
GetOrCreateFind(p, tenantID, resourceType, now) ==
    /\ \/ calls[p].pc = "idle"
       \/ /\ calls[p].pc = "find"
          /\ calls[p].arg = <<tenantID, resourceType>>
    /\ LET i == FindOne(settings, tenantID, resourceType)
           retried == calls[p].retried
       IN calls' = [calls EXCEPT ![p] =
               IF i # 0
               THEN Call("done", "GetOrCreate", <<tenantID, resourceType>>, <<>>,
                         <<settings[i]>>, retried)
               ELSE Call("insert", "GetOrCreate", <<tenantID, resourceType>>,
                         <<DefaultSettings(NoID, tenantID, resourceType, now)>>,
                         <<>>, retried)]
    /\ UNCHANGED <<comments, nextID, settings, resp, everLogged, ops, indexes, reactions, reports, notifier, visitors, clock, served>>

\* an insert that is tried again on a duplicate key, with no fetch
GetOrCreateInsertAgain(p) ==
    /\ calls[p].pc = "insert"
    /\ LET doc == [calls[p].read[1] EXCEPT !.ID = Len(settings) + 1]
       IN IF IsDuplicateKey(settings, doc)
          THEN /\ calls' = [calls EXCEPT ![p] =
                       Call("insert", "GetOrCreate", calls[p].arg, calls[p].read, <<>>, TRUE)]
               /\ UNCHANGED settings
          ELSE /\ settings' = InsertOne(settings, doc)
               /\ calls' = [calls EXCEPT ![p] =
                       Call("done", "GetOrCreate", calls[p].arg, <<>>, <<doc>>,
                            calls[p].retried)]
    /\ UNCHANGED <<comments, nextID, resp, everLogged, ops, indexes, reactions, reports, notifier, visitors, clock, served>>

\* GetOrCreate, second step: InsertOne; on a duplicate key the call starts
\* over, else it returns its own struct with the inserted ID
GetOrCreateInsert(p) ==
    /\ calls[p].pc = "insert"
    /\ LET doc == [calls[p].read[1] EXCEPT !.ID = Len(settings) + 1]
       IN IF IsDuplicateKey(settings, doc)
          THEN /\ calls' = [calls EXCEPT ![p] =
                       Call("find", "GetOrCreate", calls[p].arg, <<>>, <<>>, TRUE)]
               /\ UNCHANGED settings
          ELSE /\ settings' = InsertOne(settings, doc)
               /\ calls' = [calls EXCEPT ![p] =
                       Call("done", "GetOrCreate", calls[p].arg, <<>>, <<doc>>,
                            calls[p].retried)]
    /\ UNCHANGED <<comments, nextID, resp, everLogged, ops, indexes, reactions, reports, notifier, visitors, clock, served>>

\* SettingsRepository.Update: FindOneAndUpdate with upsert
UpdateSettings(docs, tenantID, resourceType, req) ==
    LET i == FindOne(docs, tenantID, resourceType)
    IN IF i # 0 THEN [docs EXCEPT ![i] = ApplySet(@, req)]
       ELSE Append(docs, ApplySet(ZeroSettings(Len(docs) + 1, tenantID, resourceType), req))

----------------------------------------------------------------------------
(* Bad-word detector *)

\* FindAllString of "(?i)\b(w1|w2|...)\b" on the content: the words of the
\* content that equal a listed word up to case, in order
FindAllString(list, content) ==
    SelectSeq(content, LAMBDA w : \E i \in 1..Len(list) : ToLower(list[i]) = ToLower(w))

RECURSIVE Unique(_, _)
\* the "Remove duplicates" loop: first-seen casing of each lower-cased word
Unique(flagged, seen) ==
    IF flagged = <<>> THEN <<>>
    ELSE IF ToLower(Head(flagged)) \in seen THEN Unique(Tail(flagged), seen)
    ELSE <<Head(flagged)>> \o Unique(Tail(flagged), seen \cup {ToLower(Head(flagged))})

\* u.badWordsRegex is nil unless the filter is enabled and the list non-empty
BadWordsRegexSet == BadWordsEnabled /\ Len(BadWordsList) > 0

checkBadWords(content, customBadWords) ==
    LET global == IF BadWordsRegexSet THEN FindAllString(BadWordsList, content) ELSE <<>>
        custom == IF Len(customBadWords) > 0 THEN FindAllString(customBadWords, content) ELSE <<>>
    IN Unique(global \o custom, {})

----------------------------------------------------------------------------
(* Comment engine: create *)

\* a depth computed without the increment
ReplyDepthSameAsParent(parent) == parent.Depth

\* depth = parent.Depth + 1
ReplyDepth(parent) == parent.Depth + 1

\* a root ID that is always the parent's ID
ReplyRootIDOfParent(parent, pid) == pid

\* rootID = parent.RootID if set, else the parent's own ID
ReplyRootID(parent, pid) == IF parent.RootID # NoID THEN parent.RootID ELSE pid

\* "Determine initial status"
InitialStatus(s, flaggedWords) ==
    IF ~s.RequireApproval THEN StatusApproved
    ELSE IF Len(flaggedWords) > 0 THEN StatusPending
    ELSE StatusPending

\* validations that check AllowReplies before they look the parent up
CreateErrorRepliesBeforeLookup(s, req, cs) ==
    IF ~s.CommentsEnabled THEN "comments are disabled for this resource type"
    ELSE IF req.IsAnonymous /\ ~s.AllowAnonymous THEN "anonymous comments are not allowed"
    ELSE IF ContentLen(req.Content) > s.MaxCommentLength THEN "comment exceeds maximum length"
    ELSE IF req.ParentID = NoID THEN ""
    ELSE IF req.ParentID = InvalidID THEN "invalid parent ID"
    ELSE IF ~s.AllowReplies THEN "replies are not allowed"
    ELSE IF req.ParentID \notin DOMAIN cs THEN "parent comment not found"
    ELSE IF ReplyDepth(cs[req.ParentID]) > s.MaxReplyDepth THEN "maximum reply depth exceeded"
    ELSE ""

\* validations without the check of AllowReplies
CreateErrorRepliesIgnored(s, req, cs) ==
    IF ~s.CommentsEnabled THEN "comments are disabled for this resource type"
    ELSE IF req.IsAnonymous /\ ~s.AllowAnonymous THEN "anonymous comments are not allowed"
    ELSE IF ContentLen(req.Content) > s.MaxCommentLength THEN "comment exceeds maximum length"
    ELSE IF req.ParentID = NoID THEN ""
    ELSE IF req.ParentID = InvalidID THEN "invalid parent ID"
    ELSE IF req.ParentID \notin DOMAIN cs THEN "parent comment not found"
    ELSE IF ReplyDepth(cs[req.ParentID]) > s.MaxReplyDepth THEN "maximum reply depth exceeded"
    ELSE ""

\* validations whose length check refuses a content of exactly the limit
CreateErrorAtLimit(s, req, cs) ==
    IF ~s.CommentsEnabled THEN "comments are disabled for this resource type"
    ELSE IF req.IsAnonymous /\ ~s.AllowAnonymous THEN "anonymous comments are not allowed"
    ELSE IF ContentLen(req.Content) >= s.MaxCommentLength THEN "comment exceeds maximum length"
    ELSE IF req.ParentID = NoID THEN ""
    ELSE IF req.ParentID = InvalidID THEN "invalid parent ID"
    ELSE IF req.ParentID \notin DOMAIN cs THEN "parent comment not found"
    ELSE IF ~s.AllowReplies THEN "replies are not allowed"
    ELSE IF ReplyDepth(cs[req.ParentID]) > s.MaxReplyDepth THEN "maximum reply depth exceeded"
    ELSE ""

\* The validations of CreateComment in the order of the code: the error
\* message, "" when the request passes them all (the length message is
\* kept without its "of N characters")
CreateError(s, req, cs) ==
    IF ~s.CommentsEnabled THEN "comments are disabled for this resource type"
    ELSE IF req.IsAnonymous /\ ~s.AllowAnonymous THEN "anonymous comments are not allowed"
    ELSE IF ContentLen(req.Content) > s.MaxCommentLength THEN "comment exceeds maximum length"
    ELSE IF req.ParentID = NoID THEN ""
    ELSE IF req.ParentID = InvalidID THEN "invalid parent ID"
    ELSE IF req.ParentID \notin DOMAIN cs THEN "parent comment not found"
    ELSE IF ~s.AllowReplies THEN "replies are not allowed"
    ELSE IF ReplyDepth(cs[req.ParentID]) > s.MaxReplyDepth THEN "maximum reply depth exceeded"
    ELSE ""

\* a display name that prefers the caller's profile name to the request's
DisplayNameProfileFirst(req, authorName) ==
    IF req.IsAnonymous THEN "Anonymous"
    ELSE IF authorName # "" THEN authorName
    ELSE req.AuthorName

\* displayName: the request's author name when it has one, the caller's
\* profile name otherwise, "Anonymous" for an anonymous request
DisplayName(req, authorName) ==
    IF req.IsAnonymous THEN "Anonymous"
    ELSE IF req.AuthorName # "" THEN req.AuthorName
    ELSE authorName

\* authorEmail as stored: cleared for an anonymous request
DisplayEmail(req, authorEmail) == IF req.IsAnonymous THEN "" ELSE authorEmail

\* The models.Comment CreateComment builds
NewComment(s, req, authorID, authorName, authorEmail, cs) ==
    LET isReply == req.ParentID # NoID
        flaggedWords == checkBadWords(req.Content, s.CustomBadWords)
    IN [TenantID |-> req.TenantID, ResourceType |-> req.ResourceType,
        ResourceID |-> req.ResourceID,
        ParentID |-> req.ParentID,
        RootID |-> IF isReply THEN ReplyRootID(cs[req.ParentID], req.ParentID) ELSE NoID,
        Depth |-> IF isReply THEN ReplyDepth(cs[req.ParentID]) ELSE 0,
        AuthorID |-> authorID, AuthorName |-> DisplayName(req, authorName),
        AuthorEmail |-> DisplayEmail(req, authorEmail),
        IsAnonymous |-> req.IsAnonymous, Content |-> req.Content,
        Attachments |-> req.Attachments,
        Status |-> InitialStatus(s, flaggedWords), FlaggedWords |-> flaggedWords,
        ModeratedBy |-> "", ModeratedAt |-> <<>>, RejectionReason |-> "",
        IsPinned |-> FALSE, PinnedBy |-> "", PinnedAt |-> <<>>,
        IsEdited |-> FALSE, EditHistory |-> <<>>,
        ReplyCount |-> 0, LikeCount |-> 0, DislikeCount |-> 0, ReactionCounts |-> {},
        CreatedAt |-> ZeroTime,
        IsDeleted |-> FALSE, DeletedBy |-> ""]

\* CommentRepository.Create: created_at is set to the time of the call, then
\* InsertOne; the store assigns the ID. The clock has moved on since the
\* comment before was stored: the time of the call is read off the ID.
Insert(cs, id, doc) ==
    [i \in DOMAIN cs \cup {id} |->
        IF i = id THEN [doc EXCEPT !.CreatedAt = EncodeTime(<<id, 1>>)] ELSE cs[i]]

\* a counter update that adds one whatever the delta
IncrementReplyCountByOne(cs, id, delta) ==
    IF id \in DOMAIN cs THEN [cs EXCEPT ![id].ReplyCount = @ + 1] ELSE cs

\* CommentRepository.IncrementReplyCount: UpdateOne with $inc; it matches no
\* document when the ID is unknown
IncrementReplyCount(cs, id, delta) ==
    IF id \in DOMAIN cs THEN [cs EXCEPT ![id].ReplyCount = @ + delta] ELSE cs

\* What the caller of a read gets back: the operation, its arguments, its
\* error ("" for success), the IDs of the comments it returned in order, the
\* total and the number of pages it reported
ReadResponse(op, call, err, out, total, pages) ==
    [op |-> op, err |-> err, id |-> NoID, logged |-> FALSE, out |-> out,
     call |-> call, total |-> total, pages |-> pages, spawned |-> "", notified |-> <<>>]

\* a response that hands a logged counter failure to the caller
ResponseFailingWhenLogged(op, err, id, logged, out) ==
    [op |-> op, err |-> IF logged THEN "failed to update reply count" ELSE err,
     id |-> id, logged |-> logged, out |-> out,
     call |-> <<>>, total |-> 0, pages |-> 0, spawned |-> "", notified |-> <<>>]

\* What the caller of a write gets back and what the operation logged: the
\* operation, its error ("" for success), the comment it returned, whether a
\* failed counter update was logged; spawned names the notification
\* goroutine the operation started, notified the notifications it sent
Response(op, err, id, logged, out) ==
    [op |-> op, err |-> err, id |-> id, logged |-> logged, out |-> out,
     call |-> <<>>, total |-> 0, pages |-> 0, spawned |-> "", notified |-> <<>>]

\* The response of an operation together with the request it answers
Called(r, call) == [r EXCEPT !.call = call]

\* a response of an operation that waits for its notification and fails
\* when the notifier does
NotifyingAwaited(r, spawned, notified) ==
    [r EXCEPT !.spawned = spawned, !.notified = notified,
              !.err = IF notifier = "failing" /\ notified # <<>>
                      THEN "failed to send notification" ELSE @]

\* The value a response holds for an operation that ran to its end and
\* started its notification goroutine
Notifying(r, spawned, notified) == [r EXCEPT !.spawned = spawned, !.notified = notified]

\* The notifier a use case can be built with: none, one that is switched
\* off in the configuration, one that delivers, one whose SendNotification
\* returns an error, one whose SendNotification does not return
Notifiers == {"nil", "disabled", "delivering", "failing", "hanging"}

\* u.notifier != nil; the router builds the use case with a nil notifier
\* client
NotifierSet == notifier # "nil"

\* cfg.Notifier.Enabled
NotifierEnabled == notifier # "disabled"

\* sendNewCommentNotification: the types of the notifications it sends
sendNewCommentNotification(comment, s) ==
    IF ~NotifierSet \/ ~NotifierEnabled THEN <<>>
    ELSE IF ~s.NotifyOnNewComment /\ comment.ParentID = NoID THEN <<>>
    ELSE IF ~s.NotifyOnReply /\ comment.ParentID # NoID THEN <<>>
    ELSE IF comment.Status = StatusPending THEN <<"comment.pending">>
    ELSE IF comment.ParentID # NoID THEN <<"comment.reply">>
    ELSE <<"comment.new">>

\* sendModerationNotification: the types of the notifications it sends
sendModerationNotification(comment) ==
    IF ~NotifierSet \/ ~NotifierEnabled THEN <<>> ELSE <<"comment.moderated">>

\* CreateComment. authorName and authorEmail are the caller's profile; incOK:
\* whether the reply-count update succeeds. The response keeps the request
\* and the profile it was called with.
CreateComment(req, authorID, authorName, authorEmail, incOK) ==
    LET g == GetOrCreate(settings, req.TenantID, req.ResourceType)
        s == g.settings
        err == CreateError(s, req, comments)
        stored == Insert(comments, nextID,
                         NewComment(s, req, authorID, authorName, authorEmail, comments))
    IN /\ settings' = g.docs
       /\ IF err # ""
          THEN /\ UNCHANGED <<comments, nextID, everLogged>>
               /\ resp' = Called(Response("CreateComment", err, NoID, FALSE, <<>>),
                                  <<req, authorName, authorEmail, authorID>>)
          ELSE /\ comments' = IF req.ParentID # NoID /\ incOK
                              THEN IncrementReplyCount(stored, req.ParentID, 1)
                              ELSE stored
               /\ nextID' = nextID + 1
               /\ everLogged' = (everLogged \/ (req.ParentID # NoID /\ ~incOK))
               /\ resp' = Called(Notifying(Response("CreateComment", "", nextID,
                                                     req.ParentID # NoID /\ ~incOK, <<>>),
                                            "sendNewCommentNotification",
                                            sendNewCommentNotification(stored[nextID], s)),
                                  <<req, authorName, authorEmail, authorID>>)

----------------------------------------------------------------------------
(* Comment repository: writes *)

\* One field of bson.M{"$set": comment}: a field tagged omitempty is left out
\* of the $set when it holds its zero value, so the stored value stays
OmitEmpty(new, zero, old) == IF new = zero THEN old ELSE new

\* A *time.Time once stored: nil (<<>>) stays nil
EncodeTimePtr(t) == IF t = <<>> THEN <<>> ELSE <<EncodeTime(t[1])>>

\* CommentRepository.Update: UpdateOne {_id} {$set: comment}; it matches no
\* document when the ID is unknown
Update(cs, id, c) ==
    IF id \notin DOMAIN cs THEN cs
    ELSE [cs EXCEPT ![id] =
            [TenantID |-> c.TenantID, ResourceType |-> c.ResourceType,
             ResourceID |-> c.ResourceID,
             ParentID |-> OmitEmpty(c.ParentID, NoID, @.ParentID),
             RootID |-> OmitEmpty(c.RootID, NoID, @.RootID),
             Depth |-> c.Depth,
             AuthorID |-> c.AuthorID, AuthorName |-> c.AuthorName,
             AuthorEmail |-> OmitEmpty(c.AuthorEmail, "", @.AuthorEmail),
             IsAnonymous |-> c.IsAnonymous, Content |-> c.Content,
             Attachments |-> OmitEmpty(c.Attachments, <<>>, @.Attachments),
             Status |-> c.Status,
             FlaggedWords |-> OmitEmpty(c.FlaggedWords, <<>>, @.FlaggedWords),
             ModeratedBy |-> OmitEmpty(c.ModeratedBy, "", @.ModeratedBy),
             ModeratedAt |-> OmitEmpty(EncodeTimePtr(c.ModeratedAt), <<>>, @.ModeratedAt),
             RejectionReason |-> OmitEmpty(c.RejectionReason, "", @.RejectionReason),
             IsPinned |-> c.IsPinned,
             PinnedBy |-> OmitEmpty(c.PinnedBy, "", @.PinnedBy),
             PinnedAt |-> OmitEmpty(EncodeTimePtr(c.PinnedAt), <<>>, @.PinnedAt),
             IsEdited |-> c.IsEdited,
             EditHistory |-> OmitEmpty(c.EditHistory, <<>>, @.EditHistory),
             ReplyCount |-> c.ReplyCount, LikeCount |-> c.LikeCount,
             DislikeCount |-> c.DislikeCount,
             ReactionCounts |-> OmitEmpty(c.ReactionCounts, {}, @.ReactionCounts),
             CreatedAt |-> EncodeTime(c.CreatedAt),
             IsDeleted |-> c.IsDeleted,
             DeletedBy |-> OmitEmpty(c.DeletedBy, "", @.DeletedBy)]]

\* CommentRepository.SoftDelete: $set is_deleted, deleted_by (and the times)
SoftDelete(cs, id, deletedBy) ==
    IF id \in DOMAIN cs
    THEN [cs EXCEPT ![id].IsDeleted = TRUE, ![id].DeletedBy = deletedBy]
    ELSE cs

----------------------------------------------------------------------------
(* Comment engine: update, delete, moderate, pin *)

\* an edit history that keeps only the latest record
ReplaceEditRecord(c, userID) == <<[Content |-> c.Content, EditedBy |-> userID]>>

\* "Save edit history": the record of the prior content is appended
AppendEditRecord(c, userID) ==
    Append(c.EditHistory, [Content |-> c.Content, EditedBy |-> userID])

\* a status that goes back to pending whenever words are flagged
StatusPendingWhenFlagged(c, s, flaggedWords) ==
    IF Len(flaggedWords) > 0 THEN StatusPending ELSE c.Status

\* The status UpdateComment leaves: back to pending when words are flagged and
\* approval is required
StatusAfterEdit(c, s, flaggedWords) ==
    IF Len(flaggedWords) > 0 /\ s.RequireApproval THEN StatusPending ELSE c.Status

\* an edit that makes the editor the author of the comment
EditedCommentOwnedByEditor(c, s, content, userID) ==
    LET flaggedWords == checkBadWords(content, s.CustomBadWords)
    IN [c EXCEPT !.EditHistory = AppendEditRecord(c, userID),
                 !.Content = content,
                 !.IsEdited = TRUE,
                 !.AuthorID = userID,
                 !.FlaggedWords = flaggedWords,
                 !.Status = StatusAfterEdit(c, s, flaggedWords)]

\* The comment UpdateComment hands to the repository, from the one it read
EditedComment(c, s, content, userID) ==
    LET flaggedWords == checkBadWords(content, s.CustomBadWords)
    IN [c EXCEPT !.EditHistory = AppendEditRecord(c, userID),
                 !.Content = content,
                 !.IsEdited = TRUE,
                 !.FlaggedWords = flaggedWords,
                 !.Status = StatusAfterEdit(c, s, flaggedWords)]

\* checks that look at the deleted flag before the ownership
UpdatePreErrorDeletedFirst(cs, id, userID, isAdmin) ==
    IF id = InvalidID THEN "invalid comment ID"
    ELSE IF id \notin DOMAIN cs THEN "comment not found"
    ELSE IF cs[id].IsDeleted THEN "cannot edit deleted comment"
    ELSE IF cs[id].AuthorID # userID /\ ~isAdmin THEN "you can only edit your own comments"
    ELSE ""

\* The checks of UpdateComment before it resolves the settings
UpdatePreError(cs, id, userID, isAdmin) ==
    IF id = InvalidID THEN "invalid comment ID"
    ELSE IF id \notin DOMAIN cs THEN "comment not found"
    ELSE IF cs[id].AuthorID # userID /\ ~isAdmin THEN "you can only edit your own comments"
    ELSE IF cs[id].IsDeleted THEN "cannot edit deleted comment"
    ELSE ""

\* An UpdateCommentRequest
UpdateCommentRequest(content, attachments) ==
    [Content |-> content, Attachments |-> attachments]

\* UpdateComment
UpdateCommentWith(id, req, userID, isAdmin) ==
    LET pre == UpdatePreError(comments, id, userID, isAdmin)
    IN IF pre # ""
       THEN /\ resp' = Response("UpdateComment", pre, NoID, FALSE, <<>>)
            /\ UNCHANGED <<comments, nextID, settings, everLogged>>
       ELSE LET c == comments[id]
                g == GetOrCreate(settings, c.TenantID, c.ResourceType)
                s == g.settings
            IN /\ settings' = g.docs
               /\ UNCHANGED <<nextID, everLogged>>
               /\ IF ContentLen(req.Content) > s.MaxCommentLength
                  THEN /\ resp' = Response("UpdateComment", "comment exceeds maximum length",
                                           NoID, FALSE, <<>>)
                       /\ UNCHANGED comments
                  ELSE /\ comments' = Update(comments, id,
                                             [EditedComment(c, s, req.Content, userID)
                                                 EXCEPT !.Attachments = req.Attachments])
                       /\ resp' = Response("UpdateComment", "", id, FALSE, <<>>)

\* UpdateComment with a request that holds no attachments
UpdateComment(id, content, userID, isAdmin) ==
    UpdateCommentWith(id, UpdateCommentRequest(content, <<>>), userID, isAdmin)

\* The checks of DeleteComment
DeleteError(cs, id, userID, isAdmin) ==
    IF id = InvalidID THEN "invalid comment ID"
    ELSE IF id \notin DOMAIN cs THEN "comment not found"
    ELSE IF cs[id].AuthorID # userID /\ ~isAdmin THEN "you can only delete your own comments"
    ELSE ""

\* DeleteComment. incOK: whether the reply-count update succeeds.
DeleteComment(id, userID, isAdmin, incOK) ==
    LET err == DeleteError(comments, id, userID, isAdmin)
    IN IF err # ""
       THEN /\ resp' = Response("DeleteComment", err, NoID, FALSE, <<>>)
            /\ UNCHANGED <<comments, nextID, settings, everLogged>>
       ELSE LET c == comments[id]
                deleted == SoftDelete(comments, id, userID)
                isReply == c.ParentID # NoID
            IN /\ comments' = IF isReply /\ incOK
                              THEN IncrementReplyCount(deleted, c.ParentID, -1)
                              ELSE deleted
               /\ everLogged' = (everLogged \/ (isReply /\ ~incOK))
               /\ resp' = Response("DeleteComment", "", id, isReply /\ ~incOK, <<>>)
               /\ UNCHANGED <<nextID, settings>>

\* AdminHandler.HardDelete: "Use DeleteComment with isAdmin=true"
HardDelete(id, userID, incOK) == DeleteComment(id, userID, TRUE, incOK)

\* a moderation that decides pending comments only
ModeratedOncePending(c, status, rejectionReason, moderatorID) ==
    [c EXCEPT !.Status = IF @ = StatusPending THEN status ELSE @,
              !.ModeratedBy = moderatorID,
              !.ModeratedAt = <<Now(1)>>,
              !.RejectionReason = IF status = StatusRejected THEN rejectionReason ELSE @]

\* The comment ModerateComment hands to the repository, from the one it read
ModeratedComment(c, status, rejectionReason, moderatorID) ==
    [c EXCEPT !.Status = status,
              !.ModeratedBy = moderatorID,
              !.ModeratedAt = <<Now(1)>>,
              !.RejectionReason = IF status = StatusRejected THEN rejectionReason ELSE @]

\* The ID checks the handlers that read one comment share
LookupError(cs, id) ==
    IF id = InvalidID THEN "invalid comment ID"
    ELSE IF id \notin DOMAIN cs THEN "comment not found"
    ELSE ""

ModerateComment(id, status, rejectionReason, moderatorID) ==
    LET err == LookupError(comments, id)
    IN /\ resp' = Called(IF err # "" THEN Response("ModerateComment", err, NoID, FALSE, <<>>)
                         ELSE Notifying(Response("ModerateComment", "", id, FALSE, <<>>),
                                        "sendModerationNotification",
                                        sendModerationNotification(
                                            ModeratedComment(comments[id], status,
                                                             rejectionReason, moderatorID))),
                         <<id, status, rejectionReason, moderatorID>>)
       /\ comments' = IF err # "" THEN comments
                      ELSE Update(comments, id,
                                  ModeratedComment(comments[id], status, rejectionReason, moderatorID))
       /\ UNCHANGED <<nextID, settings, everLogged>>

\* The statuses AdminHandler.ModerateComment lets through ("Validate status")
ModerationStatuses == {StatusApproved, StatusRejected, StatusSpam}

\* AdminHandler.ModerateComment: the status of the body is validated, then
\* the use case runs
AdminModerateComment(id, status, rejectionReason, moderatorID) ==
    IF status \notin ModerationStatuses
    THEN /\ resp' = Called(Response("ModerateComment", "invalid_status", NoID, FALSE, <<>>),
                           <<id, status, rejectionReason, moderatorID>>)
         /\ UNCHANGED <<comments, nextID, settings, everLogged>>
    ELSE ModerateComment(id, status, rejectionReason, moderatorID)

RECURSIVE BulkModerated(_, _, _, _, _)
\* The loop of AdminHandler.BulkModerate: ModerateComment on each ID in turn;
\* the collection it leaves, the count of successes and the IDs that failed
BulkModerated(cs, commentIDs, status, rejectionReason, moderatorID) ==
    IF commentIDs = <<>>
    THEN [cs |-> cs, successCount |-> 0, failedIDs |-> <<>>, notified |-> <<>>]
    ELSE LET id == Head(commentIDs)
             err == LookupError(cs, id)
             moderated == ModeratedComment(cs[id], status, rejectionReason, moderatorID)
             after == IF err # "" THEN cs ELSE Update(cs, id, moderated)
             rest == BulkModerated(after, Tail(commentIDs), status, rejectionReason, moderatorID)
         IN [cs |-> rest.cs,
             successCount |-> rest.successCount + (IF err = "" THEN 1 ELSE 0),
             failedIDs |-> (IF err = "" THEN <<>> ELSE <<id>>) \o rest.failedIDs,
             notified |-> (IF err = "" THEN sendModerationNotification(moderated) ELSE <<>>)
                          \o rest.notified]

\* AdminHandler.BulkModerate: the response holds the count of successes
\* (total) and the IDs that failed (out)
BulkModerate(commentIDs, status, rejectionReason, moderatorID) ==
    LET r == BulkModerated(comments, commentIDs, status, rejectionReason, moderatorID)
    IN /\ UNCHANGED <<nextID, settings, everLogged>>
       /\ IF Len(commentIDs) = 0
          THEN /\ resp' = Response("BulkModerate", "invalid_request", NoID, FALSE, <<>>)
               /\ UNCHANGED comments
          ELSE /\ comments' = r.cs
               /\ resp' = [Notifying(Response("BulkModerate", "", NoID, FALSE, r.failedIDs),
                                      IF r.successCount > 0 THEN "sendModerationNotification" ELSE "",
                                      r.notified)
                            EXCEPT !.total = r.successCount]

\* The comment PinComment hands to the repository, from the one it read
PinnedComment(c, isPinned, userID) ==
    [c EXCEPT !.IsPinned = isPinned,
              !.PinnedBy = IF isPinned THEN userID ELSE "",
              !.PinnedAt = IF isPinned THEN <<Now(1)>> ELSE <<>>]

PinComment(id, isPinned, userID) ==
    LET err == LookupError(comments, id)
    IN /\ resp' = Response("PinComment", err, IF err = "" THEN id ELSE NoID, FALSE, <<>>)
       /\ comments' = IF err # "" THEN comments
                      ELSE Update(comments, id, PinnedComment(comments[id], isPinned, userID))
       /\ UNCHANGED <<nextID, settings, everLogged>>

----------------------------------------------------------------------------
(* Comment engine: update, moderate and pin as calls in flight, each in two
   steps: up to the read of the comment, and from there to the write *)

Frame == UNCHANGED <<nextID, everLogged, ops, indexes, reactions, reports, notifier, visitors, clock, served>>

\* A call has read comment id and goes on to its write
Reading(p, op, arg, id) ==
    /\ calls' = [calls EXCEPT ![p] = Call("write", op, arg, <<comments[id]>>, <<>>, FALSE)]
    /\ UNCHANGED <<comments, settings, resp>>

\* A call has returned to its caller
Finished(p) == calls' = [calls EXCEPT ![p] = Call("done", @.op, @.arg, <<>>, <<>>, FALSE)]

\* A call has failed before its write
Failing(p, op, arg, err) ==
    /\ calls' = [calls EXCEPT ![p] = Call("done", op, arg, <<>>, <<>>, FALSE)]
    /\ resp' = Response(op, err, NoID, FALSE, <<>>)
    /\ UNCHANGED <<comments, settings>>

\* The write a call in flight is about to make
Writing(p, op) == calls[p].pc = "write" /\ calls[p].op = op

UpdateCommentRead(p, id, content, userID, isAdmin) ==
    LET pre == UpdatePreError(comments, id, userID, isAdmin)
        arg == <<id, content, userID>>
    IN /\ calls[p].pc = "idle"
       /\ IF pre # "" THEN Failing(p, "UpdateComment", arg, pre)
          ELSE Reading(p, "UpdateComment", arg, id)
       /\ Frame

UpdateCommentWrite(p) ==
    LET id == calls[p].arg[1]
        content == calls[p].arg[2]
        c == calls[p].read[1]
        g == GetOrCreate(settings, c.TenantID, c.ResourceType)
    IN /\ Writing(p, "UpdateComment")
       /\ settings' = g.docs
       /\ Finished(p)
       /\ IF ContentLen(content) > g.settings.MaxCommentLength
          THEN /\ resp' = Response("UpdateComment", "comment exceeds maximum length",
                                   NoID, FALSE, <<>>)
               /\ UNCHANGED comments
          ELSE /\ comments' = Update(comments, id,
                                     [EditedComment(c, g.settings, content, calls[p].arg[3])
                                         EXCEPT !.Attachments = <<>>])
               /\ resp' = Response("UpdateComment", "", id, FALSE, <<>>)
       /\ Frame

ModerateCommentRead(p, id, status, rejectionReason, moderatorID) ==
    LET err == LookupError(comments, id)
        arg == <<id, status, rejectionReason, moderatorID>>
    IN /\ calls[p].pc = "idle"
       /\ IF err # "" THEN Failing(p, "ModerateComment", arg, err)
          ELSE Reading(p, "ModerateComment", arg, id)
       /\ Frame

ModerateCommentWrite(p) ==
    LET arg == calls[p].arg
    IN /\ Writing(p, "ModerateComment")
       /\ comments' = Update(comments, arg[1],
                             ModeratedComment(calls[p].read[1], arg[2], arg[3], arg[4]))
       /\ resp' = Notifying(Response("ModerateComment", "", arg[1], FALSE, <<>>),
                            "sendModerationNotification",
                            sendModerationNotification(
                                ModeratedComment(calls[p].read[1], arg[2], arg[3], arg[4])))
       /\ Finished(p)
       /\ UNCHANGED settings
       /\ Frame

PinCommentRead(p, id, isPinned, userID) ==
    LET err == LookupError(comments, id)
        arg == <<id, isPinned, userID>>
    IN /\ calls[p].pc = "idle"
       /\ IF err # "" THEN Failing(p, "PinComment", arg, err)
          ELSE Reading(p, "PinComment", arg, id)
       /\ Frame

PinCommentWrite(p) ==
    LET arg == calls[p].arg
    IN /\ Writing(p, "PinComment")
       /\ comments' = Update(comments, arg[1], PinnedComment(calls[p].read[1], arg[2], arg[3]))
       /\ resp' = Response("PinComment", "", arg[1], FALSE, <<>>)
       /\ Finished(p)
       /\ UNCHANGED settings
       /\ Frame

----------------------------------------------------------------------------
(* Comment repository: reads *)

MaxPageSize == 100

DefaultPageSize == 20

\* "Set defaults": the page and the page size the repository uses
RepoPage(page) == IF page < 1 THEN 1 ELSE page

RepoPageSize(pageSize) == IF pageSize < 1 \/ pageSize > MaxPageSize THEN DefaultPageSize ELSE pageSize

\* SetSkip((page - 1) * pageSize) and SetLimit(pageSize) on the sorted result
PageOf(sorted, page, pageSize) ==
    LET skip == (RepoPage(page) - 1) * RepoPageSize(pageSize)
        last == IF skip + RepoPageSize(pageSize) < Len(sorted)
                THEN skip + RepoPageSize(pageSize) ELSE Len(sorted)
    IN SubSeq(sorted, skip + 1, last)

\* The value of the sort field; created_at grows with the ID the store assigned
SortKey(cs, id, sortBy) ==
    CASE sortBy = "like_count" -> cs[id].LikeCount
      [] sortBy = "reply_count" -> cs[id].ReplyCount
      [] OTHER -> id

\* bson.D{{is_pinned, -1}, {sortField, sortOrder}}: a comes before b; comments
\* with equal keys come in insertion order
Before(cs, a, b, sortBy, sortOrder) ==
    IF cs[a].IsPinned # cs[b].IsPinned THEN cs[a].IsPinned
    ELSE IF SortKey(cs, a, sortBy) # SortKey(cs, b, sortBy)
         THEN IF sortOrder = "asc" THEN SortKey(cs, a, sortBy) < SortKey(cs, b, sortBy)
              ELSE SortKey(cs, a, sortBy) > SortKey(cs, b, sortBy)
         ELSE a < b

RECURSIVE Sorted(_, _, _, _)
Sorted(cs, ids, sortBy, sortOrder) ==
    IF ids = {} THEN <<>>
    ELSE LET first == CHOOSE a \in ids :
                          \A b \in ids \ {a} : Before(cs, a, b, sortBy, sortOrder)
         IN <<first>> \o Sorted(cs, ids \ {first}, sortBy, sortOrder)

\* The filter CommentRepository.List builds: the IDs of the documents it matches
ListFilter(cs, req) ==
    {id \in DOMAIN cs :
        /\ req.TenantID # "" => cs[id].TenantID = req.TenantID
        /\ req.ResourceType # "" => cs[id].ResourceType = req.ResourceType
        /\ req.ResourceID # "" => cs[id].ResourceID = req.ResourceID
        /\ IF req.ParentID = NoID THEN cs[id].ParentID = NoID
           ELSE req.ParentID # InvalidID => cs[id].ParentID = req.ParentID
        /\ req.Status # "" => cs[id].Status = req.Status
        /\ req.AuthorID # "" => cs[id].AuthorID = req.AuthorID
        /\ req.IsPinned # <<>> => cs[id].IsPinned = req.IsPinned[1]
        /\ ~req.IncludeDeleted => ~cs[id].IsDeleted}

\* CommentRepository.List: the page and the total
List(cs, req) ==
    LET hits == ListFilter(cs, req)
        sortBy == IF req.SortBy \in {"created_at", "like_count", "reply_count"}
                  THEN req.SortBy ELSE "created_at"
    IN [out |-> PageOf(Sorted(cs, hits, sortBy, req.SortOrder), req.Page, req.PageSize),
        total |-> Cardinality(hits)]

\* replies of every status, newest first
RepoGetRepliesUnfiltered(cs, parentID, page, pageSize) ==
    LET hits == {id \in DOMAIN cs : cs[id].ParentID = parentID /\ ~cs[id].IsDeleted}
    IN [out |-> PageOf(Sorted(cs, hits, "created_at", "desc"), page, pageSize),
        total |-> Cardinality(hits)]

\* CommentRepository.GetReplies: approved, not deleted, oldest first
RepoGetReplies(cs, parentID, page, pageSize) ==
    LET hits == {id \in DOMAIN cs : /\ cs[id].ParentID = parentID
                                    /\ ~cs[id].IsDeleted
                                    /\ cs[id].Status = StatusApproved}
    IN [out |-> PageOf(Sorted(cs, hits, "created_at", "asc"), page, pageSize),
        total |-> Cardinality(hits)]

\* $text: the content holds the searched word, compared without case
TextMatch(content, query) == \E i \in 1..Len(content) : ToLower(content[i]) = ToLower(query)

\* CommentRepository.Search: approved, not deleted, of the tenant; the order
\* by text score is taken to be the insertion order
Search(cs, tenantID, query, page, pageSize) ==
    LET hits == {id \in DOMAIN cs : /\ TextMatch(cs[id].Content, query)
                                    /\ cs[id].TenantID = tenantID
                                    /\ ~cs[id].IsDeleted
                                    /\ cs[id].Status = StatusApproved}
    IN [out |-> PageOf(Sorted(cs, hits, "created_at", "asc"), page, pageSize),
        total |-> Cardinality(hits)]

----------------------------------------------------------------------------
(* Comment engine: reads *)

Unchanged == UNCHANGED <<comments, nextID, settings, everLogged>>

GetComment(id) ==
    LET err == LookupError(comments, id)
    IN /\ resp' = ReadResponse("GetComment", <<id>>, err,
                               IF err = "" THEN <<id>> ELSE <<>>, 0, 0)
       /\ Unchanged

\* a status filter that is passed on as the caller gave it
ListStatusAsGiven(req, isAdmin) == req.Status

\* "Non-admins can only see approved comments": the status filter handed to
\* the repository
ListStatus(req, isAdmin) ==
    IF ~isAdmin /\ req.Status = "" THEN StatusApproved ELSE req.Status

\* totalPages of the response: the page size the use case divides by
ResponsePageSize(pageSize) == IF pageSize < 1 THEN DefaultPageSize ELSE pageSize

TotalPages(total, pageSize) ==
    (total \div ResponsePageSize(pageSize))
    + (IF total % ResponsePageSize(pageSize) > 0 THEN 1 ELSE 0)

ListComments(req, isAdmin) ==
    LET r == List(comments, [req EXCEPT !.Status = ListStatus(req, isAdmin)])
    IN /\ resp' = ReadResponse("ListComments", <<req, isAdmin>>, "", r.out, r.total,
                               TotalPages(r.total, req.PageSize))
       /\ Unchanged

GetReplies(commentID, page, pageSize) ==
    LET r == RepoGetReplies(comments, commentID, page, pageSize)
    IN /\ resp' = IF commentID = InvalidID
                  THEN ReadResponse("GetReplies", <<commentID, page, pageSize>>,
                                    "invalid comment ID", <<>>, 0, 0)
                  ELSE ReadResponse("GetReplies", <<commentID, page, pageSize>>,
                                    "", r.out, r.total, 0)
       /\ Unchanged

SearchComments(tenantID, query, page, pageSize) ==
    LET r == Search(comments, tenantID, query, page, pageSize)
    IN /\ resp' = ReadResponse("SearchComments", <<tenantID, query, page, pageSize>>,
                               "", r.out, r.total, 0)
       /\ Unchanged

----------------------------------------------------------------------------
(* Reports *)

\* idx_unique_report, which CreateIndexes makes on the reports collection
ReportIndexes == {"idx_unique_report"}

\* The models.Report a caller hands to ReportRepository.Create
Report(commentID, reporterID, reason) ==
    [CommentID |-> commentID, ReporterID |-> reporterID, Reason |-> reason, Status |-> ""]

\* idx_unique_report, unique on (comment_id, reporter_id): with it an insert
\* of a second report with the pair is a duplicate-key error
IsDuplicateReport(docs, report) ==
    /\ "idx_unique_report" \in indexes
    /\ \E i \in 1..Len(docs) : /\ docs[i].CommentID = report.CommentID
                                /\ docs[i].ReporterID = report.ReporterID

\* an insert that stores the report whatever is stored
InsertReportUnchecked(docs, report) == Append(docs, [report EXCEPT !.Status = "pending"])

\* InsertOne on the reports collection of the report with status "pending":
\* the collection afterwards
InsertReport(docs, report) ==
    IF IsDuplicateReport(docs, report) THEN docs
    ELSE Append(docs, [report EXCEPT !.Status = "pending"])

\* ReportRepository.Create. Its one access to the store is the InsertOne, so
\* concurrent calls act as these steps in some order.
ReportCreate(commentID, reporterID, reason) ==
    LET report == Report(commentID, reporterID, reason)
        err == IF IsDuplicateReport(reports, report)
               THEN "you have already reported this comment" ELSE ""
    IN /\ reports' = InsertReport(reports, report)
       /\ resp' = Called(Response("ReportCreate", err, NoID, FALSE, <<>>),
                         <<commentID, reporterID, reason>>)
       /\ UNCHANGED <<comments, nextID, settings, everLogged, reactions>>

\* ReportRepository.GetByCommentID: the reports of a comment
ReportGetByCommentID(commentID) ==
    /\ resp' = Called(Response("ReportGetByCommentID", "", NoID, FALSE,
                               SelectSeq(reports, LAMBDA r : r.CommentID = commentID)),
                      <<commentID>>)
    /\ UNCHANGED <<comments, nextID, settings, everLogged, reactions, reports, notifier, visitors, clock, served>>

----------------------------------------------------------------------------
(* Reactions *)

\* idx_user_reaction, which CreateIndexes makes on the reactions collection
ReactionIndexes == {"idx_user_reaction"}

ReactionLike == "like"

ReactionDislike == "dislike"

\* isValidReactionType: the seven reaction types
isValidReactionType(rt) ==
    rt \in {ReactionLike, ReactionDislike, "love", "haha", "wow", "sad", "angry"}

\* The models.Reaction AddReaction builds
Reaction(commentID, userID, reactionType) ==
    [CommentID |-> commentID, UserID |-> userID, Type |-> reactionType]

\* The reactions of a user on a comment
ReactionsOf(rs, commentID, userID) ==
    {r \in rs : r.CommentID = commentID /\ r.UserID = userID}

\* an upsert that inserts the reaction without looking for one of the pair
UpsertAdding(rs, reaction) == rs \cup {reaction}

\* ReactionRepository.Upsert: UpdateOne {comment_id, user_id} {$set: type}
\* with upsert; with idx_user_reaction the server settles concurrent upserts
\* of a pair one after the other
Upsert(rs, reaction) ==
    LET same == ReactionsOf(rs, reaction.CommentID, reaction.UserID)
    IN IF same = {} THEN rs \cup {reaction}
       ELSE LET r == CHOOSE r \in same : TRUE
            IN (rs \ {r}) \cup {[r EXCEPT !.Type = reaction.Type]}

\* ReactionRepository.Delete: DeleteOne {comment_id, user_id}
DeleteReaction(rs, userID, commentID) ==
    LET same == ReactionsOf(rs, commentID, userID)
    IN IF same = {} THEN rs ELSE rs \ {CHOOSE r \in same : TRUE}

\* ReactionRepository.GetReactionCounts: the reactions of the comment
\* grouped by type; counts holds a (type, count) pair for each type that has
\* a reaction
GetReactionCounts(rs, commentID) ==
    LET of == {r \in rs : r.CommentID = commentID}
        Count(t) == Cardinality({r \in of : r.Type = t})
    IN [counts |-> {<<t, Count(t)>> : t \in {r.Type : r \in of}},
        likeCount |-> Count(ReactionLike),
        dislikeCount |-> Count(ReactionDislike)]

\* CommentRepository.UpdateReactionCounts: UpdateOne {_id} {$set: like_count,
\* dislike_count, reaction_counts}; it matches no document when the ID is
\* unknown
UpdateReactionCounts(cs, id, likeCount, dislikeCount, reactionCounts) ==
    IF id \in DOMAIN cs
    THEN [cs EXCEPT ![id].LikeCount = likeCount, ![id].DislikeCount = dislikeCount,
                    ![id].ReactionCounts = reactionCounts]
    ELSE cs

\* What AddReaction refuses: the handler checks the type, the use case the
\* ID, that the comment is stored and that it is not soft-deleted
AddReactionError(cs, commentID, reactionType) ==
    IF ~isValidReactionType(reactionType) THEN "invalid_reaction_type"
    ELSE IF commentID = InvalidID THEN "invalid comment ID"
    ELSE IF commentID \notin DOMAIN cs THEN "comment not found"
    ELSE IF cs[commentID].IsDeleted THEN "cannot react to deleted comment"
    ELSE ""

\* What no step of a reaction call changes
ReactionFrame == UNCHANGED <<nextID, everLogged, ops, indexes, notifier, visitors, clock, served>>

\* A reaction call goes on to its next step
Stepping(p, pc, read) == calls' = [calls EXCEPT ![p] = Call(pc, @.op, @.arg, read, <<>>, FALSE)]

\* AddReaction up to its upsert: the checks, the lookup of the comment and
\* the upsert of the reaction
AddReactionUpsert(p, commentID, reactionType, userID) ==
    LET err == AddReactionError(comments, commentID, reactionType)
        arg == <<commentID, reactionType, userID>>
    IN /\ calls[p].pc = "idle"
       /\ IF err # ""
          THEN /\ calls' = [calls EXCEPT ![p] = Call("done", "AddReaction", arg, <<>>, <<>>, FALSE)]
               /\ resp' = Called(Response("AddReaction", err, NoID, FALSE, <<>>), arg)
               /\ UNCHANGED reactions
          ELSE /\ calls' = [calls EXCEPT ![p] = Call("count", "AddReaction", arg, <<>>, <<>>, FALSE)]
               /\ reactions' = Upsert(reactions, Reaction(commentID, userID, reactionType))
               /\ resp' = Called(Response("Upsert", "", commentID, FALSE, <<>>), arg)
       /\ UNCHANGED <<comments, settings, reports, notifier, visitors, clock, served>>
       /\ ReactionFrame

\* RemoveReaction up to its delete: the check of the ID and the delete of
\* the reaction; the comment is not looked up
RemoveReactionDelete(p, commentID, userID) ==
    LET arg == <<commentID, "", userID>>
    IN /\ calls[p].pc = "idle"
       /\ IF commentID = InvalidID
          THEN /\ calls' = [calls EXCEPT ![p] = Call("done", "RemoveReaction", arg, <<>>, <<>>, FALSE)]
               /\ resp' = Called(Response("RemoveReaction", "invalid comment ID",
                                          NoID, FALSE, <<>>), arg)
               /\ UNCHANGED reactions
          ELSE /\ calls' = [calls EXCEPT ![p] = Call("count", "RemoveReaction", arg, <<>>, <<>>, FALSE)]
               /\ reactions' = DeleteReaction(reactions, userID, commentID)
               /\ resp' = Called(Response("Delete", "", commentID, FALSE, <<>>), arg)
       /\ UNCHANGED <<comments, settings, reports, notifier, visitors, clock, served>>
       /\ ReactionFrame

\* updateReactionCounts, first half: the aggregation over the reactions
updateReactionCountsRead(p) ==
    /\ calls[p].pc = "count"
    /\ Stepping(p, "write", <<GetReactionCounts(reactions, calls[p].arg[1])>>)
    /\ UNCHANGED <<comments, settings, resp, reactions, reports, notifier, visitors, clock, served>>
    /\ ReactionFrame

\* updateReactionCounts, second half: the write of the counts it read; the
\* operation then returns success
updateReactionCountsWrite(p) ==
    LET r == calls[p].read[1]
    IN /\ calls[p].pc = "write" /\ calls[p].op \in {"AddReaction", "RemoveReaction"}
       /\ comments' = UpdateReactionCounts(comments, calls[p].arg[1],
                                           r.likeCount, r.dislikeCount, r.counts)
       /\ Finished(p)
       /\ resp' = Called(Response(calls[p].op, "", calls[p].arg[1], FALSE, <<>>), calls[p].arg)
       /\ UNCHANGED <<settings, reactions, reports, notifier, visitors, clock, served>>
       /\ ReactionFrame

----------------------------------------------------------------------------
(* Settings update as an operation *)

\* SettingsRepository.Update as an operation: it returns the record as it
\* is after the update
UpdateSettingsOp(tenantID, resourceType, req) ==
    LET docs == UpdateSettings(settings, tenantID, resourceType, req)
    IN /\ settings' = docs
       /\ resp' = Called(Response("UpdateSettings", "", NoID, FALSE,
                                  <<docs[FindOne(docs, tenantID, resourceType)]>>),
                         <<tenantID, resourceType, req>>)
       /\ UNCHANGED <<comments, nextID, everLogged>>

\* SettingsRepository.GetOrCreate as an operation: it returns the record it
\* found or built
GetOrCreateOp(tenantID, resourceType) ==
    LET g == GetOrCreate(settings, tenantID, resourceType)
    IN /\ settings' = g.docs
       /\ resp' = Called(Response("GetOrCreate", "", NoID, FALSE, <<g.settings>>),
                         <<tenantID, resourceType>>)
       /\ UNCHANGED <<comments, nextID, everLogged>>

----------------------------------------------------------------------------

\* The collections are empty and no call is in flight
InitStore ==
    /\ comments = << >>
    /\ nextID = 1
    /\ settings = << >>
    /\ resp = Response("", "", NoID, FALSE, <<>>)
    /\ everLogged = FALSE
    /\ ops = 0
    /\ calls = [p \in Callers |-> Idle]
    /\ reactions = {}
    /\ reports = <<>>
    /\ visitors = [key \in {} |-> 0]
    /\ clock = 0
    /\ served = <<>>

\* The service has started and CreateIndexes has made every index
Init ==
    /\ InitStore
    /\ indexes = ReactionIndexes \cup ReportIndexes \cup SettingsIndexes
    /\ notifier = "nil"

\* The service has started with a use case built with some notifier
InitNotifier ==
    /\ InitStore
    /\ indexes = ReactionIndexes \cup ReportIndexes \cup SettingsIndexes
    /\ notifier \in Notifiers

\* The service has started: CreateIndexes has made every index, or it has
\* failed at a collection and made none of the indexes from there on, which
\* main only logs
InitStartup ==
    /\ InitStore
    /\ notifier = "nil"
    /\ indexes \in {ReactionIndexes \cup ReportIndexes \cup SettingsIndexes,
                    ReactionIndexes \cup ReportIndexes, ReactionIndexes, {}}

----------------------------------------------------------------------------
(* Rate limiter *)

\* DefaultRateLimitKeyFunc: the user ID, or the IP address when there is none
DefaultRateLimitKeyFunc(userID, ip) == IF userID # "" THEN "user:" \o userID ELSE "ip:" \o ip

\* time.Since(lastSeen) > cfg.Window
WindowExpired(v, t) == t - v.lastSeen > Window

\* a limiter that also notes the time of a request it rejects
LimitTouchingRejected(vs, key, t) ==
    IF key \notin DOMAIN vs \/ WindowExpired(vs[key], t)
    THEN [visitors |-> [k \in DOMAIN vs \cup {key} |->
                          IF k = key THEN [count |-> 1, lastSeen |-> t] ELSE vs[k]],
          status |-> 200]
    ELSE [visitors |-> [vs EXCEPT ![key] = [count |-> @.count + 1, lastSeen |-> t]],
          status |-> IF vs[key].count + 1 > Max THEN 429 ELSE 200]

\* The handler RateLimitMiddleware returns, under its mutex: the map
\* afterwards and the status, 200 standing for c.Next()
Limit(vs, key, t) ==
    IF key \notin DOMAIN vs \/ WindowExpired(vs[key], t)
    THEN [visitors |-> [k \in DOMAIN vs \cup {key} |->
                          IF k = key THEN [count |-> 1, lastSeen |-> t] ELSE vs[k]],
          status |-> 200]
    ELSE IF vs[key].count + 1 > Max
    THEN [visitors |-> [vs EXCEPT ![key].count = @ + 1], status |-> 429]
    ELSE [visitors |-> [vs EXCEPT ![key] = [count |-> @.count + 1, lastSeen |-> t]],
          status |-> 200]

\* One request passes the rate limiter
RateLimitMiddleware(key) ==
    LET r == Limit(visitors, key, clock)
    IN /\ visitors' = r.visitors
       /\ served' = Append(served, [key |-> key, at |-> clock, status |-> r.status])
       /\ UNCHANGED clock

\* One pass of the cleanup goroutine, under the mutex
Cleanup ==
    /\ visitors' = [k \in {j \in DOMAIN visitors : ~WindowExpired(visitors[j], clock)} |->
                       visitors[k]]
    /\ UNCHANGED <<clock, served>>

\* Time passes
Tick == clock' = clock + 1 /\ UNCHANGED <<visitors, served>>

----------------------------------------------------------------------------
(* Inputs and bounds of the runs *)

\* clean, flagged by the global list (twice, in two casings), flagged by the
\* tenant's custom list
Contents == {<<"ok">>, <<"SCAM", "scam">>, <<"ugly", "ok">>}

\* Partial settings updates
SettingsRequests ==
    {[NoFields EXCEPT !.RequireApproval = <<FALSE>>, !.CustomBadWords = <<(<<"ugly">>)>>],
     [NoFields EXCEPT !.MaxReplyDepth = <<1>>, !.MaxCommentLength = <<5>>,
                      !.CommentsEnabled = <<TRUE>>, !.AllowReplies = <<TRUE>>]}

CreateRequest(parentID, content, isAnonymous) ==
    [TenantID |-> "shop", ResourceType |-> "product", ResourceID |-> "p1",
     ParentID |-> parentID, AuthorName |-> "",
     Content |-> content, Attachments |-> <<>>, IsAnonymous |-> isAnonymous]

\* Requests: every content as a root comment or as a reply to a stored
\* comment; a malformed and an unknown parent ID; an anonymous request
CreateRequests ==
    {CreateRequest(p, c, FALSE) : p \in {NoID} \cup DOMAIN comments, c \in Contents}
    \cup {CreateRequest(p, <<"ok">>, FALSE) : p \in {InvalidID, nextID}}
    \cup {CreateRequest(NoID, <<"ok">>, TRUE)}

\* The store holds at most max comments: a create that would store one more
\* is not run
CanCreate(req, max) ==
    \/ nextID <= max
    \/ CreateError(GetOrCreate(settings, req.TenantID, req.ResourceType).settings,
                   req, comments) # ""

Create == \E req \in CreateRequests :
    /\ CanCreate(req, MaxComments)
    /\ CreateComment(req, "u1", "svc", "", TRUE)
    /\ UNCHANGED <<ops, calls, indexes, reactions, reports, notifier, visitors, clock, served>>

ChangeSettings == \E req \in SettingsRequests :
    /\ UpdateSettingsOp("shop", "product", req)
    /\ UNCHANGED <<ops, calls, indexes, reactions, reports, notifier, visitors, clock, served>>

Next == Create \/ ChangeSettings

Spec == Init /\ [][Next]_vars

----------------------------------------------------------------------------
(* The thread specification: comments and replies are created, edited,
   soft-deleted, moderated and pinned under the default settings; at most
   MaxThread comments are stored and at most MaxOps edits, deletions,
   moderations and pins succeed *)

\* Who asks for an edit or a deletion: the author, another user, an admin
Editors == {<<"u1", FALSE>>, <<"u2", FALSE>>, <<"u2", TRUE>>}

\* The IDs a request names: the stored comments and one that is not stored
TargetIDs == DOMAIN comments \cup {nextID}

Budget == ops < MaxOps

Spend(ok) == ops' = (IF ok THEN ops + 1 ELSE ops) /\ UNCHANGED <<calls, indexes, reactions, reports, notifier, visitors, clock, served>>

ThreadCreate == \E p \in {NoID} \cup DOMAIN comments, incOK \in BOOLEAN :
    /\ p = NoID => incOK
    /\ CanCreate(CreateRequest(p, <<"ok">>, FALSE), MaxThread)
    /\ CreateComment(CreateRequest(p, <<"ok">>, FALSE), "u1", "svc", "", incOK)
    /\ UNCHANGED <<ops, calls, indexes, reactions, reports, notifier, visitors, clock, served>>

ThreadUpdate == \E id \in TargetIDs, content \in Contents \ {<<"ok">>}, caller \in Editors :
    /\ Budget
    /\ UpdateComment(id, content, caller[1], caller[2])
    /\ Spend(resp'.err = "")

ThreadDelete == \E id \in TargetIDs, caller \in Editors, incOK \in BOOLEAN :
    /\ Budget
    /\ DeleteComment(id, caller[1], caller[2], incOK)
    /\ Spend(resp'.err = "")

ThreadModerate == \E id \in TargetIDs, status \in {StatusApproved, StatusRejected} :
    /\ Budget
    /\ ModerateComment(id, status, "off-topic", "m1")
    /\ Spend(resp'.err = "")

ThreadPin == \E id \in TargetIDs, isPinned \in BOOLEAN :
    /\ Budget
    /\ PinComment(id, isPinned, "m1")
    /\ Spend(resp'.err = "")

ThreadNext == ThreadCreate \/ ThreadUpdate \/ ThreadDelete \/ ThreadModerate \/ ThreadPin

SpecThread == Init /\ [][ThreadNext]_vars

----------------------------------------------------------------------------
(* The counting specification: comments and replies are created and
   soft-deleted, a comment possibly more than once, and each reply-count
   update succeeds or fails; at most MaxCounted comments are stored and at
   most MaxDeletes deletions succeed *)

CountCreate == \E p \in {NoID} \cup DOMAIN comments, incOK \in BOOLEAN :
    /\ p = NoID => incOK
    /\ CanCreate(CreateRequest(p, <<"ok">>, FALSE), MaxCounted)
    /\ CreateComment(CreateRequest(p, <<"ok">>, FALSE), "u1", "svc", "", incOK)
    /\ UNCHANGED <<ops, calls, indexes, reactions, reports, notifier, visitors, clock, served>>

CountDelete == \E id \in TargetIDs, caller \in Editors, incOK \in BOOLEAN :
    /\ ops < MaxDeletes
    /\ DeleteComment(id, caller[1], caller[2], incOK)
    /\ Spend(resp'.err = "")

CountNext == CountCreate \/ CountDelete

SpecCount == Init /\ [][CountNext]_vars

----------------------------------------------------------------------------
(* The editing specification: comments are created and edited, with clean
   and flagged contents, by their author, another user or an admin, while
   the settings change; at most MaxEdited comments are stored and at most
   MaxEdits edits succeed *)

EditCreate == \E c \in Contents :
    /\ CanCreate(CreateRequest(NoID, c, FALSE), MaxEdited)
    /\ CreateComment(CreateRequest(NoID, c, FALSE), "u1", "svc", "", TRUE)
    /\ UNCHANGED <<ops, calls, indexes, reactions, reports, notifier, visitors, clock, served>>

EditUpdate == \E id \in TargetIDs, content \in Contents, caller \in Editors :
    /\ ops < MaxEdits
    /\ UpdateComment(id, content, caller[1], caller[2])
    /\ Spend(resp'.err = "")

EditNext == EditCreate \/ EditUpdate \/ ChangeSettings

SpecEdit == Init /\ [][EditNext]_vars

----------------------------------------------------------------------------
(* The reading specification: comments and replies are created and
   moderated and soft-deleted while approval is required or not, and are
   read by ID, listed, read as replies and searched; at most MaxListed
   comments are stored and at most MaxModerations moderations and deletions
   succeed *)

ListRequest(parentID, status, includeDeleted, sortOrder, page, pageSize) ==
    [TenantID |-> "shop", ResourceType |-> "product", ResourceID |-> "p1",
     ParentID |-> parentID, Status |-> status, AuthorID |-> "", IsPinned |-> <<>>,
     SortBy |-> "created_at", SortOrder |-> sortOrder,
     Page |-> page, PageSize |-> pageSize, IncludeDeleted |-> includeDeleted]

\* a page of one, and the first and second page of the default size
Pages == {<<1, 1>>, <<2, 1>>, <<1, 0>>}

\* root comments and the replies to comment 1, with no status filter and
\* with an explicit one; root comments in ascending order, including the
\* deleted and with a parent ID that is not valid hex; root comments with
\* the largest page size and with a page size above it
ListRequests ==
    {ListRequest(p, st, FALSE, "desc", pg[1], pg[2]) :
        p \in {NoID, 1}, st \in {"", StatusPending}, pg \in Pages}
    \cup {ListRequest(NoID, "", TRUE, "asc", 1, 0), ListRequest(InvalidID, "", FALSE, "desc", 1, 0)}
    \cup {ListRequest(NoID, "", FALSE, "desc", 1, MaxPageSize),
          ListRequest(NoID, "", FALSE, "desc", 1, MaxPageSize + 50)}

ReadCreate == \E p \in {NoID} \cup DOMAIN comments :
    /\ CanCreate(CreateRequest(p, <<"ok">>, FALSE), MaxListed)
    /\ CreateComment(CreateRequest(p, <<"ok">>, FALSE), "u1", "svc", "", TRUE)
    /\ UNCHANGED <<ops, calls, indexes, reactions, reports, notifier, visitors, clock, served>>

ReadModerate == \E id \in DOMAIN comments, status \in {StatusApproved, StatusRejected} :
    /\ ops < MaxModerations
    /\ ModerateComment(id, status, "off-topic", "m1")
    /\ Spend(TRUE)

ReadDelete == \E id \in DOMAIN comments :
    /\ ops < MaxModerations
    /\ DeleteComment(id, "u1", FALSE, TRUE)
    /\ Spend(TRUE)

\* approval is switched off for the resource type
ReadSettings ==
    /\ UpdateSettingsOp("shop", "product", [NoFields EXCEPT !.RequireApproval = <<FALSE>>])
    /\ UNCHANGED <<ops, calls, indexes, reactions, reports, notifier, visitors, clock, served>>

ReadGet == \E id \in TargetIDs \cup {InvalidID} : GetComment(id) /\ UNCHANGED <<ops, calls, indexes, reactions, reports, notifier, visitors, clock, served>>

ReadList == \E req \in ListRequests, isAdmin \in BOOLEAN :
    ListComments(req, isAdmin) /\ UNCHANGED <<ops, calls, indexes, reactions, reports, notifier, visitors, clock, served>>

ReadReplies == \E id \in TargetIDs \cup {InvalidID}, pg \in {<<1, 0>>, <<2, 1>>} :
    GetReplies(id, pg[1], pg[2]) /\ UNCHANGED <<ops, calls, indexes, reactions, reports, notifier, visitors, clock, served>>

ReadSearch == \E query \in {"ok", "scam"}, pg \in {<<1, 0>>} :
    SearchComments("shop", query, pg[1], pg[2]) /\ UNCHANGED <<ops, calls, indexes, reactions, reports, notifier, visitors, clock, served>>

ReadNext ==
    \/ ReadCreate \/ ReadModerate \/ ReadDelete \/ ReadSettings
    \/ ReadGet \/ ReadList \/ ReadReplies \/ ReadSearch

SpecRead == Init /\ [][ReadNext]_vars

----------------------------------------------------------------------------
(* The settings race specification: up to MaxCallers calls of GetOrCreate
   run step by step, each for one of two resource types of the tenant, in
   every interleaving, after a startup that has made the indexes or not *)

RaceTypes == {"product", "article"}

RaceFind == \E p \in Callers, rt \in RaceTypes, sub \in SubMillis :
    GetOrCreateFind(p, "shop", rt, Now(sub))

RaceInsert == \E p \in Callers : GetOrCreateInsert(p)

RaceNext == RaceFind \/ RaceInsert

SpecRace == InitStartup /\ [][RaceNext]_vars

----------------------------------------------------------------------------
(* The in-flight specification: up to MaxInFlight updates, moderations and
   pins run in two steps each while comments and replies are created and
   soft-deleted, which moves the reply counts; at most MaxLost comments are
   stored and a comment is soft-deleted at most once *)

InFlight == {p \in Callers : p <= MaxInFlight}

LostCreate == \E parentID \in {NoID} \cup DOMAIN comments :
    /\ CanCreate(CreateRequest(parentID, <<"ok">>, FALSE), MaxLost)
    /\ CreateComment(CreateRequest(parentID, <<"ok">>, FALSE), "u1", "svc", "", TRUE)
    /\ UNCHANGED <<ops, calls, indexes, reactions, reports, notifier, visitors, clock, served>>

LostDelete == \E id \in DOMAIN comments :
    /\ ~comments[id].IsDeleted
    /\ DeleteComment(id, "u1", FALSE, TRUE)
    /\ UNCHANGED <<ops, calls, indexes, reactions, reports, notifier, visitors, clock, served>>

LostUpdateRead == \E p \in InFlight, id \in TargetIDs :
    UpdateCommentRead(p, id, <<"ugly", "ok">>, "u1", FALSE)

LostUpdateWrite == \E p \in InFlight : UpdateCommentWrite(p)

LostModerateRead == \E p \in InFlight, id \in TargetIDs :
    ModerateCommentRead(p, id, StatusApproved, "", "m1")

LostModerateWrite == \E p \in InFlight : ModerateCommentWrite(p)

LostPinRead == \E p \in InFlight, id \in TargetIDs : PinCommentRead(p, id, TRUE, "m1")

LostPinWrite == \E p \in InFlight : PinCommentWrite(p)

LostNext ==
    \/ LostCreate \/ LostDelete
    \/ LostUpdateRead \/ LostUpdateWrite
    \/ LostModerateRead \/ LostModerateWrite
    \/ LostPinRead \/ LostPinWrite

SpecLost == Init /\ [][LostNext]_vars

----------------------------------------------------------------------------
(* The moderation specification: root comments are created with clean and
   flagged contents, edited by their author, moderated one by one and in
   bulk with valid and invalid statuses, pinned and unpinned, while approval
   is switched off; at most MaxModerated comments are stored and at most
   MaxModOps edits, moderations and pins succeed *)

\* clean content of two bytes and flagged content of nine
ModContents == {<<"ok">>, <<"SCAM", "scam">>}

\* The statuses a moderation body can hold: the valid ones, pending and a
\* string that is no status
RequestStatuses == ModerationStatuses \cup {StatusPending, "bogus"}

\* The bodies of a moderation: each status with a reason, and a rejection
\* without one
ModerationRequests ==
    {<<st, "off-topic">> : st \in RequestStatuses} \cup {<<StatusRejected, "">>}

\* The ID lists of a bulk moderation: none, the first comment, an unknown
\* ID before the first comment, a malformed one
BulkIDs == {<<>>, <<1>>, <<nextID, 1>>, <<InvalidID>>}

ModCreate == \E c \in ModContents :
    /\ CanCreate(CreateRequest(NoID, c, FALSE), MaxModerated)
    /\ CreateComment(CreateRequest(NoID, c, FALSE), "u1", "svc", "", TRUE)
    /\ UNCHANGED <<ops, calls, indexes, reactions, reports, notifier, visitors, clock, served>>

ModUpdate == \E id \in TargetIDs, content \in ModContents :
    /\ ops < MaxModOps
    /\ UpdateComment(id, content, "u1", FALSE)
    /\ Spend(resp'.err = "")

ModModerate == \E id \in TargetIDs, req \in ModerationRequests :
    /\ ops < MaxModOps
    /\ AdminModerateComment(id, req[1], req[2], "m1")
    /\ Spend(resp'.err = "")

ModBulkModerate == \E ids \in BulkIDs, status \in {StatusRejected, "bogus"} :
    /\ ops < MaxModOps
    /\ BulkModerate(ids, status, "bulk", "m2")
    /\ Spend(resp'.err = "" /\ resp'.total > 0)

ModPin == \E id \in TargetIDs, isPinned \in BOOLEAN :
    /\ ops < MaxModOps
    /\ PinComment(id, isPinned, "m1")
    /\ Spend(resp'.err = "")

\* approval is switched off in the stored settings of the resource type
ModSettings ==
    /\ FindOne(settings, "shop", "product") # 0
    /\ UpdateSettingsOp("shop", "product", [NoFields EXCEPT !.RequireApproval = <<FALSE>>])
    /\ UNCHANGED <<ops, calls, indexes, reactions, reports, notifier, visitors, clock, served>>

ModNext ==
    \/ ModCreate \/ ModUpdate \/ ModModerate \/ ModBulkModerate
    \/ ModPin \/ ModSettings

SpecModerate == Init /\ [][ModNext]_vars

----------------------------------------------------------------------------
(* The refusal specification: root comments are created, edited by their
   author, another user or an admin with a short and a long content, and
   soft-deleted, while the length limit is lowered to the length of the
   short content; at most MaxRefused comments are stored and at most
   MaxRefusedOps edits and deletions succeed *)

RefCreate ==
    /\ CanCreate(CreateRequest(NoID, <<"ok">>, FALSE), MaxRefused)
    /\ CreateComment(CreateRequest(NoID, <<"ok">>, FALSE), "u1", "svc", "", TRUE)
    /\ UNCHANGED <<ops, calls, indexes, reactions, reports, notifier, visitors, clock, served>>

RefUpdate == \E id \in TargetIDs, content \in ModContents, caller \in Editors :
    /\ UpdateComment(id, content, caller[1], caller[2])
    /\ resp'.err = "" => ops < MaxRefusedOps
    /\ Spend(resp'.err = "")

RefDelete == \E id \in DOMAIN comments :
    /\ ops < MaxRefusedOps
    /\ DeleteComment(id, "u1", FALSE, TRUE)
    /\ Spend(resp'.err = "")

RefSettings ==
    /\ FindOne(settings, "shop", "product") # 0
    /\ UpdateSettingsOp("shop", "product", [NoFields EXCEPT !.MaxCommentLength = <<2>>])
    /\ UNCHANGED <<ops, calls, indexes, reactions, reports, notifier, visitors, clock, served>>

RefNext == RefCreate \/ RefUpdate \/ RefDelete \/ RefSettings

SpecRefuse == Init /\ [][RefNext]_vars

----------------------------------------------------------------------------
(* The validation specification: comments and replies are requested, with
   short and long contents, signed and anonymous, with stored, unknown and
   malformed parent IDs, while each policy field of the settings is changed;
   at most MaxValidated comments are stored *)

\* contents of two and of seven bytes
ValContents == {<<"ok">>, <<"ugly", "ok">>}

\* Signed requests for a root comment and for a reply to a stored, a
\* malformed and an unknown parent; anonymous requests for a root comment and
\* for a reply to the first comment
ValRequests ==
    {CreateRequest(p, c, FALSE) : p \in {NoID, InvalidID, nextID} \cup DOMAIN comments,
                                  c \in ValContents}
    \cup {CreateRequest(p, c, TRUE) : p \in {NoID, 1}, c \in ValContents}

\* One policy field is changed: comments off, replies off, anonymous
\* comments allowed, the length limit at the length of the short content,
\* the depth limit at one
ValSettingsRequests ==
    {[NoFields EXCEPT !.CommentsEnabled = <<FALSE>>],
     [NoFields EXCEPT !.AllowReplies = <<FALSE>>],
     [NoFields EXCEPT !.AllowAnonymous = <<TRUE>>],
     [NoFields EXCEPT !.MaxCommentLength = <<2>>],
     [NoFields EXCEPT !.MaxReplyDepth = <<1>>]}

ValCreate == \E req \in ValRequests :
    /\ CanCreate(req, MaxValidated)
    /\ CreateComment(req, "u1", "svc", "", TRUE)
    /\ UNCHANGED <<ops, calls, indexes, reactions, reports, notifier, visitors, clock, served>>

ValSettings == \E req \in ValSettingsRequests :
    /\ UpdateSettingsOp("shop", "product", req)
    /\ UNCHANGED <<ops, calls, indexes, reactions, reports, notifier, visitors, clock, served>>

ValNext == ValCreate \/ ValSettings

SpecValidate == Init /\ [][ValNext]_vars

----------------------------------------------------------------------------
(* The identity specification: signed and anonymous comments are created
   with and without an author name in the request, by callers with and
   without a profile name and email; at most MaxIdentified comments are
   stored *)

AuthorNames == {"", "Ann"}

ProfileNames == {"", "svc"}

ProfileEmails == {"", "svc@shop"}

\* Requests for a root comment: signed or anonymous, with or without a name
IdRequests ==
    {[CreateRequest(NoID, <<"ok">>, a) EXCEPT !.AuthorName = n] :
        a \in BOOLEAN, n \in AuthorNames}

IdCreate == \E req \in IdRequests, authorName \in ProfileNames, authorEmail \in ProfileEmails :
    /\ CanCreate(req, MaxIdentified)
    /\ CreateComment(req, "u1", authorName, authorEmail, TRUE)
    /\ UNCHANGED <<ops, calls, indexes, reactions, reports, notifier, visitors, clock, served>>

IdSettings ==
    /\ UpdateSettingsOp("shop", "product", [NoFields EXCEPT !.AllowAnonymous = <<TRUE>>])
    /\ UNCHANGED <<ops, calls, indexes, reactions, reports, notifier, visitors, clock, served>>

IdNext == IdCreate \/ IdSettings

SpecIdentity == Init /\ [][IdNext]_vars

----------------------------------------------------------------------------
(* The settings specification: the settings of two resource types are read
   and partially updated in any order *)

ResourceTypes == {"product", "post"}

\* Partial updates; none of them supplies a notification flag, the bad-word
\* filter flag or a value that is a default
SetRequests ==
    {[NoFields EXCEPT !.RequireApproval = <<FALSE>>],
     [NoFields EXCEPT !.MaxReplyDepth = <<1>>, !.AllowAnonymous = <<TRUE>>],
     [NoFields EXCEPT !.MaxCommentLength = <<2>>],
     [NoFields EXCEPT !.CustomBadWords = <<(<<"ugly">>)>>]}

SetGet == \E resourceType \in ResourceTypes :
    /\ GetOrCreateOp("shop", resourceType)
    /\ UNCHANGED <<ops, calls, indexes, reactions, reports, notifier, visitors, clock, served>>

SetUpdate == \E resourceType \in ResourceTypes, req \in SetRequests :
    /\ UpdateSettingsOp("shop", resourceType, req)
    /\ UNCHANGED <<ops, calls, indexes, reactions, reports, notifier, visitors, clock, served>>

SetNext == SetGet \/ SetUpdate

SpecSettings == Init /\ [][SetNext]_vars

----------------------------------------------------------------------------
(* The reaction specification: up to MaxReacting calls of AddReaction and
   RemoveReaction by two users run step by step in every interleaving on up
   to MaxReacted comments *)

Reactors == {"u1", "u2"}

\* The types a reaction body holds: three of the valid ones and a string
\* that is no type
RequestTypes == {ReactionLike, ReactionDislike, "love", "bogus"}

\* The next call that has not started
Starting(p) ==
    /\ p <= MaxReacting
    /\ calls[p].pc = "idle"
    /\ \A q \in Callers : q < p => calls[q].pc # "idle"

ReactCreate ==
    /\ CanCreate(CreateRequest(NoID, <<"ok">>, FALSE), MaxReacted)
    /\ CreateComment(CreateRequest(NoID, <<"ok">>, FALSE), "u1", "svc", "", TRUE)
    /\ UNCHANGED <<ops, calls, indexes, reactions, reports, notifier, visitors, clock, served>>

ReactAdd == \E p \in Callers, id \in TargetIDs, rt \in RequestTypes, userID \in Reactors :
    /\ Starting(p)
    /\ rt = "bogus" => (id = 1 /\ userID = "u1")
    /\ AddReactionUpsert(p, id, rt, userID)

ReactRemove == \E p \in Callers, id \in DOMAIN comments \cup {InvalidID}, userID \in Reactors :
    /\ Starting(p)
    /\ id = InvalidID => userID = "u1"
    /\ RemoveReactionDelete(p, id, userID)

ReactCount == \E p \in Callers : updateReactionCountsRead(p)

ReactWrite == \E p \in Callers : updateReactionCountsWrite(p)

ReactNext == ReactCreate \/ ReactAdd \/ ReactRemove \/ ReactCount \/ ReactWrite

SpecReact == Init /\ [][ReactNext]_vars

----------------------------------------------------------------------------
(* The report specification: two reporters report two comments, for one of
   two reasons, in any order, and the reports of a comment are read *)

Reporters == {"u1", "u2"}

ReportedIDs == {1, 2}

ReportReasons == {"spam", "other"}

RepCreate == \E id \in ReportedIDs, reporterID \in Reporters, reason \in ReportReasons :
    /\ ReportCreate(id, reporterID, reason)
    /\ UNCHANGED <<ops, calls, indexes, notifier, visitors, clock, served>>

RepGet == \E id \in ReportedIDs :
    /\ ReportGetByCommentID(id)
    /\ UNCHANGED <<ops, calls, indexes, notifier, visitors, clock, served>>

RepNext == RepCreate \/ RepGet

SpecReport == Init /\ [][RepNext]_vars

----------------------------------------------------------------------------
(* The notification specification: the use case is built with one of the
   notifiers; comments and replies are created and moderated while approval
   and the new-comment notification are switched off; at most MaxNotified comments are stored and at most
   MaxNotifyOps moderations succeed *)

NotifySettingsRequests ==
    {[NoFields EXCEPT !.RequireApproval = <<FALSE>>],
     [NoFields EXCEPT !.NotifyOnNewComment = <<FALSE>>]}

\* An approval, a rejection with a reason, a body with a string that is no
\* status
NotifyModerationRequests ==
    {<<StatusApproved, "">>, <<StatusRejected, "off-topic">>, <<"bogus", "">>}

NotifyCreate == \E parentID \in {NoID} \cup DOMAIN comments :
    /\ CanCreate(CreateRequest(parentID, <<"ok">>, FALSE), MaxNotified)
    /\ CreateComment(CreateRequest(parentID, <<"ok">>, FALSE), "u1", "svc", "", TRUE)
    /\ UNCHANGED <<ops, calls, indexes, reactions, reports, notifier, visitors, clock, served>>

NotifyModerate == \E id \in TargetIDs, req \in NotifyModerationRequests :
    /\ ops < MaxNotifyOps
    /\ AdminModerateComment(id, req[1], req[2], "m1")
    /\ Spend(resp'.err = "")

NotifySettings == \E req \in NotifySettingsRequests :
    /\ UpdateSettingsOp("shop", "product", req)
    /\ UNCHANGED <<ops, calls, indexes, reactions, reports, notifier, visitors, clock, served>>

NotifyNext == NotifyCreate \/ NotifyModerate \/ NotifySettings

SpecNotify == InitNotifier /\ [][NotifyNext]_vars

----------------------------------------------------------------------------
(* The frame specification: a comment and replies to it are created, edited
   by an admin, soft-deleted, moderated and pinned, while a call that adds a
   reaction and a call that removes it run step by step; at most MaxFramed comments are stored
   and at most MaxFrameOps edits, deletions, moderations and pins succeed *)

FrameCreate == \E parentID \in {NoID, 1} :
    /\ (parentID = NoID) = (comments = <<>>)
    /\ CanCreate(CreateRequest(parentID, <<"ok">>, FALSE), MaxFramed)
    /\ CreateComment(CreateRequest(parentID, <<"ok">>, FALSE), "u1", "svc", "", TRUE)
    /\ UNCHANGED <<ops, calls, indexes, reactions, reports, notifier, visitors, clock, served>>

FrameUpdate == \E id \in DOMAIN comments :
    /\ ops < MaxFrameOps
    /\ UpdateComment(id, <<"ugly", "ok">>, "u2", TRUE)
    /\ Spend(resp'.err = "")

FrameDelete == \E id \in DOMAIN comments :
    /\ ops < MaxFrameOps
    /\ ~comments[id].IsDeleted
    /\ DeleteComment(id, "u1", FALSE, TRUE)
    /\ Spend(resp'.err = "")

FrameModerate == \E id \in DOMAIN comments :
    /\ ops < MaxFrameOps
    /\ comments[id].Status = StatusPending
    /\ AdminModerateComment(id, StatusRejected, "off-topic", "m1")
    /\ Spend(resp'.err = "")

FramePin == \E id \in DOMAIN comments :
    /\ ops < MaxFrameOps
    /\ ~comments[id].IsPinned
    /\ PinComment(id, TRUE, "m1")
    /\ Spend(resp'.err = "")

\* the first call adds a reaction
FrameReact == \E id \in DOMAIN comments :
    AddReactionUpsert(1, id, ReactionLike, "u2")

\* the second call removes it
FrameUnreact == \E id \in DOMAIN comments :
    /\ ReactionsOf(reactions, id, "u2") # {}
    /\ RemoveReactionDelete(2, id, "u2")

FrameCount == \E p \in Callers : updateReactionCountsRead(p)

FrameWrite == \E p \in Callers : updateReactionCountsWrite(p)

FrameNext ==
    \/ FrameCreate \/ FrameUpdate \/ FrameDelete \/ FrameModerate \/ FramePin
    \/ FrameReact \/ FrameUnreact \/ FrameCount \/ FrameWrite

SpecFrame == Init /\ [][FrameNext]_vars

----------------------------------------------------------------------------
(* The replies specification: a comment and replies to it are created with
   approval switched off or on, moderated and soft-deleted, and the replies
   are read; at most MaxReplied comments are stored and at most MaxReplyOps
   moderations and deletions succeed *)

RepliesCreate == \E parentID \in {NoID, 1} :
    /\ (parentID = NoID) = (comments = <<>>)
    /\ CanCreate(CreateRequest(parentID, <<"ok">>, FALSE), MaxReplied)
    /\ CreateComment(CreateRequest(parentID, <<"ok">>, FALSE), "u1", "svc", "", TRUE)
    /\ UNCHANGED <<ops, calls, indexes, reactions, reports, notifier, visitors, clock, served>>

\* approval is switched off for the resource type once the first comment is
\* stored
RepliesSettings ==
    /\ Len(comments) = 1
    /\ UpdateSettingsOp("shop", "product", [NoFields EXCEPT !.RequireApproval = <<FALSE>>])
    /\ UNCHANGED <<ops, calls, indexes, reactions, reports, notifier, visitors, clock, served>>

RepliesModerate == \E id \in DOMAIN comments \ {1} :
    /\ ops < MaxReplyOps
    /\ comments[id].Status # StatusRejected
    /\ ModerateComment(id, StatusRejected, "off-topic", "m1")
    /\ Spend(TRUE)

RepliesDelete == \E id \in DOMAIN comments \ {1} :
    /\ ops < MaxReplyOps
    /\ ~comments[id].IsDeleted
    /\ DeleteComment(id, "u1", FALSE, TRUE)
    /\ Spend(TRUE)

RepliesGet == \E id \in {1, 2, InvalidID}, pg \in {<<1, 0>>, <<1, 1>>, <<2, 1>>} :
    GetReplies(id, pg[1], pg[2]) /\ UNCHANGED <<ops, calls, indexes, reactions, reports, notifier, visitors, clock, served>>

RepliesNext ==
    \/ RepliesCreate \/ RepliesSettings \/ RepliesModerate \/ RepliesDelete \/ RepliesGet

SpecReplies == Init /\ [][RepliesNext]_vars

----------------------------------------------------------------------------
(* The purge specification: comments and replies are created, an admin calls
   the hard-delete endpoint and comments are read by ID; no other operation
   deletes; at most MaxPurged comments are stored and at most MaxPurgeOps
   calls of the endpoint succeed *)

PurgeCreate == \E p \in {NoID} \cup DOMAIN comments :
    /\ CanCreate(CreateRequest(p, <<"ok">>, FALSE), MaxPurged)
    /\ CreateComment(CreateRequest(p, <<"ok">>, FALSE), "u1", "svc", "", TRUE)
    /\ UNCHANGED <<ops, calls, indexes, reactions, reports, notifier, visitors, clock, served>>

PurgeDelete == \E id \in TargetIDs \cup {InvalidID}, incOK \in BOOLEAN :
    /\ ops < MaxPurgeOps
    /\ HardDelete(id, "m1", incOK)
    /\ Spend(resp'.err = "")

PurgeGet == \E id \in TargetIDs :
    GetComment(id) /\ UNCHANGED <<ops, calls, indexes, reactions, reports, notifier, visitors, clock, served>>

PurgeNext == PurgeCreate \/ PurgeDelete \/ PurgeGet

SpecPurge == Init /\ [][PurgeNext]_vars

----------------------------------------------------------------------------
(* The attachments specification: comments are created and edited with no,
   one or two attachments while the attachment settings change; at most
   MaxAttached comments are stored and at most MaxAttachOps edits and changes
   of the settings succeed *)

Attachings == {<<>>, <<"a">>, <<"a", "b">>}

AttachCreate == \E att \in Attachings :
    LET req == [CreateRequest(NoID, <<"ok">>, FALSE) EXCEPT !.Attachments = att]
    IN /\ CanCreate(req, MaxAttached)
       /\ CreateComment(req, "u1", "svc", "", TRUE)
       /\ UNCHANGED <<ops, calls, indexes, reactions, reports, notifier, visitors, clock, served>>

AttachUpdate == \E id \in DOMAIN comments, att \in Attachings :
    /\ ops < MaxAttachOps
    /\ UpdateCommentWith(id, UpdateCommentRequest(<<"ok">>, att), "u1", FALSE)
    /\ Spend(resp'.err = "")

\* attachments are allowed, one for a comment, once a comment is stored
AttachSettings ==
    /\ ops < MaxAttachOps
    /\ comments # <<>>
    /\ UpdateSettingsOp("shop", "product",
                        [NoFields EXCEPT !.AllowAttachments = <<TRUE>>, !.MaxAttachments = <<1>>])
    /\ Spend(TRUE)

AttachNext == AttachCreate \/ AttachUpdate \/ AttachSettings

SpecAttach == Init /\ [][AttachNext]_vars

----------------------------------------------------------------------------
(* The filter specification: comments are created, approved and edited with
   clean and flagged contents while the tenant switches the bad-word filter
   of the resource type off and on and names a custom word; at most
   MaxFiltered comments are stored and at most MaxFilterOps edits and
   moderations succeed *)

FilterSettingsRequests ==
    {[NoFields EXCEPT !.BadWordsFilter = <<FALSE>>],
     [NoFields EXCEPT !.BadWordsFilter = <<TRUE>>, !.CustomBadWords = <<(<<"ugly">>)>>]}

FilterCreate == \E c \in Contents :
    /\ CanCreate(CreateRequest(NoID, c, FALSE), MaxFiltered)
    /\ CreateComment(CreateRequest(NoID, c, FALSE), "u1", "svc", "", TRUE)
    /\ UNCHANGED <<ops, calls, indexes, reactions, reports, notifier, visitors, clock, served>>

FilterUpdate == \E id \in DOMAIN comments, content \in Contents :
    /\ ops < MaxFilterOps
    /\ UpdateComment(id, content, "u1", FALSE)
    /\ Spend(resp'.err = "")

FilterModerate == \E id \in DOMAIN comments :
    /\ ops < MaxFilterOps
    /\ comments[id].Status = StatusPending
    /\ ModerateComment(id, StatusApproved, "", "m1")
    /\ Spend(TRUE)

\* the settings of the resource type are stored before they are changed
FilterSettings == \E req \in FilterSettingsRequests :
    /\ FindOne(settings, "shop", "product") # 0
    /\ UpdateSettingsOp("shop", "product", req)
    /\ UNCHANGED <<ops, calls, indexes, reactions, reports, notifier, visitors, clock, served>>

\* the settings are read, which stores the defaults
FilterGet ==
    /\ GetOrCreateOp("shop", "product")
    /\ UNCHANGED <<ops, calls, indexes, reactions, reports, notifier, visitors, clock, served>>

FilterNext ==
    \/ FilterCreate \/ FilterUpdate \/ FilterModerate \/ FilterSettings \/ FilterGet

SpecFilter == Init /\ [][FilterNext]_vars

----------------------------------------------------------------------------
(* The tracking specification: root comments are created and up to
   MaxCallers updates by their author run step by step, each reading the
   comment and later writing it, in every interleaving; no update fails; at
   most MaxTracked comments are stored *)

TrackCreate ==
    /\ CanCreate(CreateRequest(NoID, <<"ok">>, FALSE), MaxTracked)
    /\ CreateComment(CreateRequest(NoID, <<"ok">>, FALSE), "u1", "svc", "", TRUE)
    /\ UNCHANGED <<ops, calls, indexes, reactions, reports, notifier, visitors, clock, served>>

TrackUpdateRead == \E p \in Callers, id \in DOMAIN comments, content \in ModContents :
    /\ \A q \in Callers : q < p => calls[q].pc # "idle"
    /\ UpdateCommentRead(p, id, content, "u1", FALSE)

TrackUpdateWrite == \E p \in Callers : UpdateCommentWrite(p)

TrackNext == TrackCreate \/ TrackUpdateRead \/ TrackUpdateWrite

SpecTrack == Init /\ [][TrackNext]_vars

----------------------------------------------------------------------------
(* The tenancy specification: root comments and replies are created by
   requests whose body names one of two tenants, one of two resource types
   and one of two resources; at most MaxHoused comments are stored *)

\* CommentHandler.Create: "Set tenant from context if not in request"
RequestTenant(bodyTenantID, tenantID) == IF bodyTenantID = "" THEN tenantID ELSE bodyTenantID

\* The bodies of the tenancy specification: with no tenant, with the caller's
\* tenant and with another one
HousedRequests ==
    {[CreateRequest(p, <<"ok">>, FALSE) EXCEPT !.TenantID = RequestTenant(t, "shop"),
                                               !.ResourceType = rt, !.ResourceID = r] :
        p \in {NoID} \cup DOMAIN comments, t \in {"", "shop", "blog"},
        rt \in {"product", "post"}, r \in {"p1", "p2"}}

HousedCreate == \E req \in HousedRequests :
    /\ CanCreate(req, MaxHoused)
    /\ CreateComment(req, "u1", "svc", "", TRUE)
    /\ UNCHANGED <<ops, calls, indexes, reactions, reports, notifier, visitors, clock, served>>

HousedGet == \E id \in TargetIDs :
    GetComment(id) /\ UNCHANGED <<ops, calls, indexes, reactions, reports, notifier, visitors, clock, served>>

HousedNext == HousedCreate \/ HousedGet

SpecHoused == Init /\ [][HousedNext]_vars

----------------------------------------------------------------------------
(* The settling specification: up to MaxSettling calls of GetOrCreate for one
   of two resource types of the tenant run step by step, in every
   interleaving with each other and with updates of the settings of the same
   keys, after a startup that has made the indexes or not. A call that has
   started goes on: the store answers every request *)

SettleFind == \E p \in Callers, rt \in RaceTypes :
    /\ p <= MaxSettling
    /\ \A q \in Callers : q < p => calls[q].pc # "idle"
    /\ GetOrCreateFind(p, "shop", rt, Now(0))

SettleInsert == \E p \in Callers : GetOrCreateInsert(p)

SettleUpdate == \E rt \in RaceTypes :
    /\ UpdateSettingsOp("shop", rt, [NoFields EXCEPT !.RequireApproval = <<FALSE>>])
    /\ UNCHANGED <<ops, calls, indexes, reactions, reports, notifier, visitors, clock, served>>

SettleNext == SettleFind \/ SettleInsert \/ SettleUpdate

\* the next step of a call that has started
Proceeding(p) ==
    \/ calls[p].pc = "find" /\ GetOrCreateFind(p, calls[p].arg[1], calls[p].arg[2], Now(0))
    \/ GetOrCreateInsert(p)

SpecSettle ==
    InitStartup /\ [][SettleNext]_vars /\ \A p \in Callers : WF_vars(Proceeding(p))

----------------------------------------------------------------------------
(* The rate-limit specification: requests of a user and of an address pass
   the rate limiter while time passes and the cleanup runs; at most
   MaxRequests requests are made, up to the time MaxTime *)

StoreFrame ==
    UNCHANGED <<comments, nextID, settings, resp, everLogged, ops, calls, indexes,
                reactions, reports, notifier>>

LimitRequest == \E userID \in {"u1", ""} :
    /\ Len(served) < MaxRequests
    /\ RateLimitMiddleware(DefaultRateLimitKeyFunc(userID, "10.0.0.1"))
    /\ StoreFrame

LimitCleanup == Cleanup /\ StoreFrame

LimitTick == clock < MaxTime /\ Tick /\ StoreFrame

LimitNext == LimitRequest \/ LimitCleanup \/ LimitTick

SpecLimit == Init /\ [][LimitNext]_vars

----------------------------------------------------------------------------
(* Claims about create *)

\* The settings record a request for (tenantID, resourceType) resolves to
Resolved(tenantID, resourceType) == GetOrCreate(settings, tenantID, resourceType).settings

\* The content holds a word of the global list or of the tenant's custom
\* words, compared without case
HasConfiguredBadWord(content, s) ==
    \E i \in 1..Len(content) :
        \/ \E j \in 1..Len(BadWordsList) : ToLower(BadWordsList[j]) = ToLower(content[i])
        \/ \E j \in 1..Len(s.CustomBadWords) : ToLower(s.CustomBadWords[j]) = ToLower(content[i])

\* C1: a comment whose content holds a configured bad word is never created
\* approved, whatever RequireApproval is; a comment is created approved only
\* when RequireApproval is false and no word was flagged.
C1_FlaggedNeverApproved ==
    (resp.op = "CreateComment" /\ resp.err = "") =>
        LET c == comments[resp.id]
            s == Resolved(c.TenantID, c.ResourceType)
        IN /\ HasConfiguredBadWord(c.Content, s) => c.Status # StatusApproved
           /\ c.Status = StatusApproved => (~s.RequireApproval /\ c.FlaggedWords = <<>>)

\* The request is a reply to a stored comment and parent.depth + 1 exceeds
\* the MaxReplyDepth resolved for the request
TooDeep(req) ==
    /\ req.ParentID \in DOMAIN comments
    /\ comments[req.ParentID].Depth + 1 > Resolved(req.TenantID, req.ResourceType).MaxReplyDepth

\* The request is a reply to a stored comment at depth exactly MaxReplyDepth
AtMaxDepth(req) ==
    /\ req.ParentID \in DOMAIN comments
    /\ comments[req.ParentID].Depth + 1 = Resolved(req.TenantID, req.ResourceType).MaxReplyDepth

\* The request passes the checks CreateComment makes before the depth check
PassesEarlierChecks(req) ==
    LET s == Resolved(req.TenantID, req.ResourceType)
    IN /\ s.CommentsEnabled
       /\ req.IsAnonymous => s.AllowAnonymous
       /\ ContentLen(req.Content) <= s.MaxCommentLength
       /\ s.AllowReplies

----------------------------------------------------------------------------
(* Claims about the validations of create *)

\* What the settings resolved for a request say about it
CommentsOn(req) == Resolved(req.TenantID, req.ResourceType).CommentsEnabled

AnonymousOK(req) == req.IsAnonymous => Resolved(req.TenantID, req.ResourceType).AllowAnonymous

TooLong(req) ==
    ContentLen(req.Content) > Resolved(req.TenantID, req.ResourceType).MaxCommentLength

AtLimit(req) ==
    ContentLen(req.Content) = Resolved(req.TenantID, req.ResourceType).MaxCommentLength

RepliesOff(req) == ~Resolved(req.TenantID, req.ResourceType).AllowReplies

\* The request is a root comment, or a reply the parent checks let through
ParentOK(req) ==
    \/ req.ParentID = NoID
    \/ /\ req.ParentID \in DOMAIN comments
       /\ ~RepliesOff(req)
       /\ ~TooDeep(req)

\* The last operation was a create; Request is the request it answered
Created == resp.op = "CreateComment"

Request == resp.call[1]

\* The step stores nothing, moves no counter and starts no notification
NothingDone ==
    /\ comments' = comments /\ nextID' = nextID
    /\ resp'.spawned = "" /\ resp'.notified = <<>>

\* C18 as stated: every create whose content is longer than the resolved
\* MaxCommentLength fails with the content-too-long error, persists no
\* record, changes no reply count and emits no notification; every create
\* whose content has exactly that length is accepted.
C18_AlwaysTooLongError ==
    [][resp'.op = "CreateComment" =>
        LET req == resp'.call[1]
        IN /\ TooLong(req) => (resp'.err = "comment exceeds maximum length" /\ NothingDone)
           /\ AtLimit(req) => resp'.err = ""]_vars

\* C18, amended: a create whose content is longer than the resolved
\* MaxCommentLength always fails, persists no record, changes no reply count
\* and emits no notification, and the error is the content-too-long error
\* whenever comments are enabled and the request is not an anonymous one
\* the settings refuse; content of exactly MaxCommentLength never fails the
\* length check and is accepted and stored when the other checks pass.
C18_TooLongError ==
    [][resp'.op = "CreateComment" =>
        LET req == resp'.call[1]
        IN /\ TooLong(req) =>
                 /\ resp'.err # "" /\ NothingDone
                 /\ (CommentsOn(req) /\ AnonymousOK(req))
                       => resp'.err = "comment exceeds maximum length"
           /\ AtLimit(req) =>
                 /\ resp'.err # "comment exceeds maximum length"
                 /\ (CommentsOn(req) /\ AnonymousOK(req) /\ ParentOK(req)) =>
                       /\ resp'.err = ""
                       /\ comments'[nextID].Content = req.Content
                       /\ resp'.spawned = "sendNewCommentNotification"]_vars

\* A reply to a stored comment has just failed because its content is too
\* long, while a reply whose content has exactly the resolved
\* MaxCommentLength is stored
C18_Witness ==
    /\ Created
    /\ resp.err = "comment exceeds maximum length"
    /\ Request.ParentID \in DOMAIN comments
    /\ \E id \in DOMAIN comments :
          /\ comments[id].ParentID # NoID
          /\ ContentLen(comments[id].Content)
                = Resolved(comments[id].TenantID, comments[id].ResourceType).MaxCommentLength

\* C19 as stated: when AllowReplies is false for the resolved settings,
\* every create with a parentID naming a stored comment fails with the
\* replies-not-allowed error, no comment is persisted and the reply count of
\* the parent is unchanged; root comments can still be created.
C19_AlwaysRepliesNotAllowed ==
    [][resp'.op = "CreateComment" =>
        LET req == resp'.call[1]
        IN (RepliesOff(req) /\ req.ParentID \in DOMAIN comments) =>
              (resp'.err = "replies are not allowed" /\ NothingDone)]_vars

\* C19, amended: when AllowReplies is false for the resolved settings, every
\* create with a parentID naming a stored comment fails, no comment is
\* persisted and the reply count of the parent is unchanged, and the error
\* is the replies-not-allowed error whenever the request passes the checks
\* that come first (comments enabled, anonymity, content length); a root
\* comment that passes those checks is still created.
C19_RepliesNotAllowed ==
    [][resp'.op = "CreateComment" =>
        LET req == resp'.call[1]
            passes == CommentsOn(req) /\ AnonymousOK(req) /\ ~TooLong(req)
        IN RepliesOff(req) =>
              /\ req.ParentID \in DOMAIN comments =>
                    /\ resp'.err # "" /\ NothingDone
                    /\ passes => resp'.err = "replies are not allowed"
              /\ (req.ParentID = NoID /\ passes) =>
                    /\ resp'.err = ""
                    /\ comments'[nextID].ParentID = NoID]_vars

\* A reply to a comment that has a reply already has just been refused
\* because replies are off
C19_Witness ==
    /\ Created
    /\ resp.err = "replies are not allowed"
    /\ Request.ParentID \in DOMAIN comments
    /\ comments[Request.ParentID].ReplyCount = 1

\* C20: create fails with comments-disabled when CommentsEnabled is false,
\* with anonymous-not-allowed when the request is anonymous and
\* AllowAnonymous is false, and with parent-not-found when parentID names no
\* stored comment; the checks are applied in the order disabled, anonymous,
\* content length, parent lookup, replies allowed, depth (a parent ID that is
\* not well-formed is refused where the lookup would be), and every such
\* failure leaves the comments and all counters unchanged.
C20_CreateChecksInOrder ==
    [][resp'.op = "CreateComment" =>
        LET req == resp'.call[1]
            passes == CommentsOn(req) /\ AnonymousOK(req) /\ ~TooLong(req)
            known == req.ParentID \in DOMAIN comments
        IN /\ ~CommentsOn(req) => resp'.err = "comments are disabled for this resource type"
           /\ (CommentsOn(req) /\ ~AnonymousOK(req))
                 => resp'.err = "anonymous comments are not allowed"
           /\ (CommentsOn(req) /\ AnonymousOK(req) /\ TooLong(req))
                 => resp'.err = "comment exceeds maximum length"
           /\ (passes /\ req.ParentID = InvalidID) => resp'.err = "invalid parent ID"
           /\ (passes /\ ~known /\ req.ParentID \notin {NoID, InvalidID})
                 => resp'.err = "parent comment not found"
           /\ (passes /\ known /\ RepliesOff(req)) => resp'.err = "replies are not allowed"
           /\ (passes /\ known /\ ~RepliesOff(req) /\ TooDeep(req))
                 => resp'.err = "maximum reply depth exceeded"
           /\ (passes /\ ParentOK(req)) => resp'.err = ""
           /\ resp'.err # "" => NothingDone]_vars

\* A reply to an unknown parent has just failed with parent-not-found while
\* replies are off and a comment is stored
C20_Witness ==
    /\ Created
    /\ resp.err = "parent comment not found"
    /\ RepliesOff(Request)
    /\ comments # <<>>

\* C21: for every successful create, an anonymous request stores the
\* display name "Anonymous" and an empty email whatever names and email came
\* with the call; any other request stores its author name when it has one
\* and the caller's profile name when it has none.
C21_DisplayIdentity ==
    [][(resp'.op = "CreateComment" /\ resp'.err = "" /\ nextID' = nextID + 1) =>
        LET c == comments'[resp'.id]
            req == resp'.call[1]
            authorName == resp'.call[2]
        IN IF req.IsAnonymous
           THEN c.AuthorName = "Anonymous" /\ c.AuthorEmail = ""
           ELSE c.AuthorName = (IF req.AuthorName # "" THEN req.AuthorName ELSE authorName)]_vars

\* An anonymous comment was just stored for a caller with a profile name and
\* an email whose request names an author, next to a signed comment that
\* took the request's name over the profile name
C21_Witness ==
    /\ Created /\ resp.err = ""
    /\ Request.IsAnonymous /\ Request.AuthorName = "Ann"
    /\ resp.call[2] = "svc" /\ resp.call[3] = "svc@shop"
    /\ comments[resp.id].AuthorName = "Anonymous"
    /\ \E id \in DOMAIN comments :
          ~comments[id].IsAnonymous /\ comments[id].AuthorName = "Ann"

----------------------------------------------------------------------------
(* Claims about the settings *)

\* The fields of a settings record a request can supply
SettingsFields == DOMAIN NoFields

\* The values the requests of the settings specification supply for a field
Supplied(f) == {req[f][1] : req \in {r \in SetRequests : r[f] # <<>>}}

\* The defaults of a key
Defaults(tenantID, resourceType) == DefaultSettings(0, tenantID, resourceType, Now(1))

\* C22: every settings record GetOrCreate returns holds the default value
\* in every field that no update has supplied, also when the first access to
\* the key was an update that created the record by upsert: each field holds
\* its default or a value an update supplies.
C22_DefaultsMaterialized ==
    resp.op = "GetOrCreate" =>
        LET s == resp.out[1]
        IN \A f \in SettingsFields :
              s[f] = Defaults(s.TenantID, s.ResourceType)[f] \/ s[f] \in Supplied(f)

\* The records stored for a key
RecordsOf(docs, tenantID, resourceType) ==
    {i \in 1..Len(docs) : docs[i].TenantID = tenantID /\ docs[i].ResourceType = resourceType}

\* C23: a settings update on an existing record changes exactly the fields
\* present in the request, and the updated-at timestamp, and leaves every
\* absent field and every other record as it was; it never creates a second
\* record for the same (tenant, resourceType).
C23_UpdateFrame ==
    [][(resp'.op = "UpdateSettings"
        /\ FindOne(settings, resp'.call[1], resp'.call[2]) # 0) =>
        LET i == FindOne(settings, resp'.call[1], resp'.call[2])
            req == resp'.call[3]
        IN /\ Len(settings') = Len(settings)
           /\ RecordsOf(settings', resp'.call[1], resp'.call[2]) = {i}
           /\ \A j \in 1..Len(settings) : j # i => settings'[j] = settings[j]
           /\ \A f \in SettingsFields :
                 settings'[i][f] = (IF req[f] # <<>> THEN req[f][1] ELSE settings[i][f])
           /\ \A f \in {"ID", "TenantID", "ResourceType", "CreatedAt"} :
                 settings'[i][f] = settings[i][f]
           /\ resp'.out = <<settings'[i]>>]_vars

\* An update that supplies the length limit only has just run on the
\* defaults record of a key after an update had set its depth limit, next to
\* the record of the other key
C23_Witness ==
    /\ resp.op = "UpdateSettings"
    /\ resp.call[3].MaxCommentLength = <<2>>
    /\ Len(settings) = 2
    /\ \E i \in 1..Len(settings) :
          /\ settings[i].ResourceType = resp.call[2]
          /\ settings[i].MaxCommentLength = 2 /\ settings[i].MaxReplyDepth = 1
          /\ settings[i].CommentsEnabled /\ settings[i].AllowAnonymous

----------------------------------------------------------------------------
(* Claims about reports and reactions *)

\* The reports stored for a (comment, reporter) pair
ReportsOf(docs, commentID, reporterID) ==
    {i \in 1..Len(docs) : docs[i].CommentID = commentID /\ docs[i].ReporterID = reporterID}

Upserted(p) ==
    calls[p].pc = "idle" /\ calls'[p].pc = "count" /\ calls'[p].op = "AddReaction"

\* Call p has just made the delete of a RemoveReaction
Removed(p) ==
    calls[p].pc = "idle" /\ calls'[p].pc = "count" /\ calls'[p].op = "RemoveReaction"

\* The reactions of every other (comment, user) pair
OtherReactions(rs, commentID, userID) == rs \ ReactionsOf(rs, commentID, userID)

C26_CountsMatchReactions ==
    (\A p \in Callers : calls[p].pc \in {"idle", "done"}) =>
        \A id \in DOMAIN comments :
            LET r == GetReactionCounts(reactions, id)
            IN /\ comments[id].LikeCount = r.likeCount
               /\ comments[id].DislikeCount = r.dislikeCount
               /\ comments[id].ReactionCounts = r.counts

----------------------------------------------------------------------------
(* Claims about notifications *)

\* What a create leaves in the store and returns, from the state before it,
\* its request and whether it logged a failed counter update
CreateOutcome(req, authorID, authorName, authorEmail, logged) ==
    LET g == GetOrCreate(settings, req.TenantID, req.ResourceType)
        err == CreateError(g.settings, req, comments)
        stored == Insert(comments, nextID,
                         NewComment(g.settings, req, authorID, authorName, authorEmail, comments))
    IN [settings |-> g.docs, err |-> err,
        comments |-> IF err # "" THEN comments
                     ELSE IF req.ParentID # NoID /\ ~logged
                     THEN IncrementReplyCount(stored, req.ParentID, 1)
                     ELSE stored,
        nextID |-> IF err # "" THEN nextID ELSE nextID + 1,
        id |-> IF err # "" THEN NoID ELSE nextID,
        spawned |-> IF err # "" THEN "" ELSE "sendNewCommentNotification"]

\* What a moderation leaves in the store and returns, from the state before
\* it and its request
ModerateOutcome(id, status, rejectionReason, moderatorID) ==
    LET err == IF status \notin ModerationStatuses THEN "invalid_status"
               ELSE LookupError(comments, id)
    IN [settings |-> settings, err |-> err,
        comments |-> IF err # "" THEN comments
                     ELSE Update(comments, id,
                                 ModeratedComment(comments[id], status, rejectionReason,
                                                  moderatorID)),
        nextID |-> nextID,
        id |-> IF err # "" THEN NoID ELSE id,
        spawned |-> IF err # "" THEN "" ELSE "sendModerationNotification"]

\* The step leaves the store and returns the result of the outcome
Yields(o) ==
    /\ settings' = o.settings /\ comments' = o.comments /\ nextID' = o.nextID
    /\ reactions' = reactions /\ reports' = reports
    /\ resp'.err = o.err /\ resp'.id = o.id /\ resp'.spawned = o.spawned

----------------------------------------------------------------------------
(* Claims about the thread structure *)

RECURSIVE TopLevelAncestor(_)
\* The top-level comment of the thread a stored comment belongs to
TopLevelAncestor(id) ==
    IF comments[id].ParentID = NoID THEN id ELSE TopLevelAncestor(comments[id].ParentID)

\* C2: in every state reachable through create, update, softDelete, moderate
\* and pin, a root comment has depth 0 and no root ID, and a reply has the
\* depth of its parent plus one and the ID of the top-level ancestor of its
\* thread as root ID.
C2_DepthAndRoot ==
    \A id \in DOMAIN comments :
        LET c == comments[id]
        IN IF c.ParentID = NoID
           THEN c.Depth = 0 /\ c.RootID = NoID
           ELSE /\ c.ParentID \in DOMAIN comments
                /\ c.Depth = comments[c.ParentID].Depth + 1
                /\ c.RootID = TopLevelAncestor(id)

\* A reply to a reply is stored, and a reply or a comment with replies has
\* just been edited, soft-deleted, moderated or pinned
C2_Witness ==
    /\ resp.op \in {"UpdateComment", "DeleteComment", "ModerateComment", "PinComment"}
    /\ resp.err = ""
    /\ \E id \in DOMAIN comments : comments[id].Depth = 2
    /\ \/ comments[resp.id].ParentID # NoID
       \/ comments[resp.id].ReplyCount > 0

----------------------------------------------------------------------------
(* Claims about the reply counts *)

\* The replies of a comment that are not soft-deleted
LiveReplies(id) == {r \in DOMAIN comments : comments[r].ParentID = id /\ ~comments[r].IsDeleted}

\* C4: after creates and soft-deletes whose counter updates all succeeded,
\* the reply count of every comment is the number of its direct replies that
\* are not soft-deleted, and so never negative, also after a reply was
\* soft-deleted twice.
C4_ReplyCountExact ==
    ~everLogged =>
        \A id \in DOMAIN comments : comments[id].ReplyCount = Cardinality(LiveReplies(id))

\* C5 as stated: a successful soft-delete of a reply changes the reply count
\* of its parent by exactly -1 and no other reply count; a successful
\* soft-delete of a root comment changes no reply count.
C5_AlwaysMinusOne ==
    [][(resp'.op = "DeleteComment" /\ resp'.err = "") =>
        \A i \in DOMAIN comments :
            comments'[i].ReplyCount =
                comments[i].ReplyCount + (IF i = comments[resp'.id].ParentID THEN -1 ELSE 0)]_vars

\* C5, amended: a successful soft-delete of a reply changes the reply count
\* of its parent by exactly -1 when the counter update succeeds and by 0 when
\* the counter update fails (the failure is logged and the soft-delete still
\* succeeds); it changes no other reply count, and a successful soft-delete
\* of a root comment changes no reply count.
C5_MinusOneUnlessLogged ==
    [][(resp'.op = "DeleteComment" /\ resp'.err = "") =>
        /\ DOMAIN comments' = DOMAIN comments
        /\ comments'[resp'.id].IsDeleted
        /\ resp'.logged => comments[resp'.id].ParentID # NoID
        /\ \A i \in DOMAIN comments :
              comments'[i].ReplyCount =
                  comments[i].ReplyCount
                  + (IF i = comments[resp'.id].ParentID /\ ~resp'.logged THEN -1 ELSE 0)]_vars

\* A reply with a sibling has just been soft-deleted and the count of its
\* parent was updated
C5_Witness ==
    /\ resp.op = "DeleteComment" /\ resp.err = "" /\ ~resp.logged
    /\ comments[resp.id].ParentID # NoID
    /\ comments[comments[resp.id].ParentID].ReplyCount = 1
    /\ Cardinality({r \in DOMAIN comments : comments[r].ParentID = comments[resp.id].ParentID}) = 2

\* C28: when the update of the parent's reply count fails after the
\* primary write succeeded, create still returns the stored reply and
\* soft-delete still returns success with the comment marked deleted; the
\* failure is logged, never returned to the caller, and the update is not
\* run again: no reply count has changed.
C28_CounterFailureSwallowed ==
    [][resp'.logged =>
        /\ resp'.op \in {"CreateComment", "DeleteComment"}
        /\ resp'.err = ""
        /\ resp'.id \in DOMAIN comments'
        /\ comments'[resp'.id].ParentID \in DOMAIN comments
        /\ resp'.op = "CreateComment" =>
              /\ resp'.id \notin DOMAIN comments
              /\ comments'[resp'.id].ParentID = resp'.call[1].ParentID
              /\ comments'[resp'.id].Content = resp'.call[1].Content
              /\ ~comments'[resp'.id].IsDeleted
        /\ resp'.op = "DeleteComment" =>
              /\ resp'.id \in DOMAIN comments
              /\ comments'[resp'.id].IsDeleted
        /\ \A i \in DOMAIN comments : comments'[i].ReplyCount = comments[i].ReplyCount]_vars

\* The one reply of a comment has just been soft-deleted while the counter
\* update failed, after the counter update of its create had failed too:
\* the parent still counts no reply
C28_Witness ==
    /\ resp.op = "DeleteComment" /\ resp.err = "" /\ resp.logged
    /\ comments[resp.id].IsDeleted
    /\ comments[resp.id].ParentID # NoID
    /\ comments[comments[resp.id].ParentID].ReplyCount = 0
    /\ {r \in DOMAIN comments : comments[r].ParentID = comments[resp.id].ParentID} = {resp.id}

\* The fields that say what a comment is on, where it stands in its
\* thread, who wrote it and when
IdentityFields ==
    {"TenantID", "ResourceType", "ResourceID", "ParentID", "RootID", "Depth",
     "AuthorID", "CreatedAt"}

\* C29: after its creation no update, soft-delete, moderation, pin,
\* reaction or counter operation changes a comment's tenant ID, resource
\* type, resource ID, parent ID, root ID, depth, author ID or created-at.
C29_IdentityImmutable ==
    [][\A id \in DOMAIN comments :
          /\ id \in DOMAIN comments'
          /\ \A f \in IdentityFields : comments'[id][f] = comments[id][f]]_vars

\* A reply has been edited by an admin who is not its author, liked and
\* soft-deleted, which has moved the reply count of its parent, and its
\* parent has been rejected
C29_Witness ==
    \E id \in DOMAIN comments :
        /\ comments[id].ParentID # NoID
        /\ comments[id].IsEdited /\ comments[id].EditHistory[1].EditedBy # comments[id].AuthorID
        /\ comments[id].LikeCount = 1
        /\ comments[id].IsDeleted
        /\ comments[comments[id].ParentID].ReplyCount = 0

----------------------------------------------------------------------------
(* Claims about edits *)

\* C10: every successful update appends exactly one entry to the edit
\* history of the comment, the entry holds the content the comment had just
\* before the update, the earlier entries are kept in order, and isEdited is
\* true afterwards.
C10_EditHistoryAppended ==
    [][(resp'.op = "UpdateComment" /\ resp'.err = "") =>
        LET old == comments[resp'.id]
            new == comments'[resp'.id]
            n == Len(old.EditHistory)
        IN /\ Len(new.EditHistory) = n + 1
           /\ SubSeq(new.EditHistory, 1, n) = old.EditHistory
           /\ new.EditHistory[n + 1].Content = old.Content
           /\ new.IsEdited]_vars

\* A comment has just been edited for the second time, to a content that
\* differs from the one it had
C10_Witness ==
    /\ resp.op = "UpdateComment" /\ resp.err = ""
    /\ Len(comments[resp.id].EditHistory) = 2
    /\ comments[resp.id].EditHistory[2].Content # comments[resp.id].Content
    /\ comments[resp.id].EditHistory[1].Content # comments[resp.id].EditHistory[2].Content

\* The last operation was an update that succeeded
Updated == resp.op = "UpdateComment" /\ resp.err = ""

\* C11: after a successful update the status of the comment is pending if
\* the new content has flagged words and RequireApproval is true, and is
\* otherwise the status it had before the update; an update never sets the
\* status to rejected or spam.
C11_StatusAfterUpdate ==
    [][(resp'.op = "UpdateComment" /\ resp'.err = "") =>
        LET old == comments[resp'.id]
            new == comments'[resp'.id]
            s == Resolved(old.TenantID, old.ResourceType)
        IN /\ new.Status = IF HasConfiguredBadWord(new.Content, s) /\ s.RequireApproval
                           THEN StatusPending ELSE old.Status
           /\ new.Status \in {StatusRejected, StatusSpam} => old.Status = new.Status]_vars

\* A comment that a moderator had approved, rejected or marked as spam has
\* just been edited to flagged content and is pending again
C11_Witness ==
    /\ Updated
    /\ comments[resp.id].Status = StatusPending
    /\ comments[resp.id].ModeratedBy = "m1"
    /\ comments[resp.id].FlaggedWords # <<>>

\* The words of a content that the global list or the custom words of the
\* settings hold, in lower case
BadWordMatches(content, s) ==
    {ToLower(content[i]) : i \in {j \in 1..Len(content) : HasConfiguredBadWord(<<content[j]>>, s)}}

\* C12: after every successful create or update, the flagged words stored
\* on the comment are exactly the bad-word matches of its current content;
\* an update from flagged content to clean content leaves the stored comment
\* with no flagged words.
C12_FlaggedWordsCurrent ==
    (resp.op \in {"CreateComment", "UpdateComment"} /\ resp.err = "") =>
        LET c == comments[resp.id]
            s == Resolved(c.TenantID, c.ResourceType)
        IN {ToLower(c.FlaggedWords[i]) : i \in 1..Len(c.FlaggedWords)} = BadWordMatches(c.Content, s)

\* C13: update fails with not-found for a missing comment, with forbidden
\* when the caller is neither the author nor an admin, and with
\* cannot-edit-deleted when the comment is soft-deleted, forbidden taking
\* precedence over deleted; in each of these failures, and on
\* content-too-long, the stored comment and its edit history are unchanged.
C13_UpdateFailures ==
    [][resp'.op = "UpdateComment" =>
        \A id \in TargetIDs, content \in ModContents, caller \in Editors :
            UpdateComment(id, content, caller[1], caller[2]) =>
                LET stored == id \in DOMAIN comments
                    allowed == stored /\ (comments[id].AuthorID = caller[1] \/ caller[2])
                    live == allowed /\ ~comments[id].IsDeleted
                IN /\ ~stored => resp'.err = "comment not found"
                   /\ (stored /\ ~allowed) => resp'.err = "you can only edit your own comments"
                   /\ (allowed /\ ~live) => resp'.err = "cannot edit deleted comment"
                   /\ (live /\ ContentLen(content)
                               > Resolved(comments[id].TenantID, comments[id].ResourceType).MaxCommentLength)
                         => resp'.err = "comment exceeds maximum length"
                   /\ resp'.err # "" => comments' = comments]_vars

\* Another user's update of a soft-deleted comment has just failed as
\* forbidden
C13_Witness ==
    /\ resp.op = "UpdateComment"
    /\ resp.err = "you can only edit your own comments"
    /\ comments # <<>>
    /\ \A id \in DOMAIN comments : comments[id].IsDeleted

----------------------------------------------------------------------------
(* Claims about moderation and pinning *)

\* C14: for an existing comment in any status, a successful moderation to
\* newStatus by moderator m leaves the comment with status newStatus,
\* moderatedBy m and moderatedAt set; a comment created pending under
\* RequireApproval becomes approved after a moderation to approved.
C14_ModerationApplied ==
    [][/\ resp'.op = "ModerateComment" =>
            \A id \in TargetIDs, req \in ModerationRequests :
                (AdminModerateComment(id, req[1], req[2], "m1") /\ resp'.err = "") =>
                    /\ comments'[id].Status = req[1]
                    /\ comments'[id].ModeratedBy = "m1"
                    /\ comments'[id].ModeratedAt # <<>>
       /\ resp'.op = "BulkModerate" =>
            \A ids \in BulkIDs, status \in ModerationStatuses :
                BulkModerate(ids, status, "bulk", "m2") =>
                    \A i \in 1..Len(ids) :
                        ids[i] \in DOMAIN comments =>
                            /\ comments'[ids[i]].Status = status
                            /\ comments'[ids[i]].ModeratedBy = "m2"
                            /\ comments'[ids[i]].ModeratedAt # <<>>]_vars

\* A comment that a bulk moderation had rejected has just been approved by
\* a single moderation while approval is required
C14_Witness ==
    /\ resp.op = "ModerateComment" /\ resp.err = ""
    /\ comments[resp.id].Status = StatusApproved
    /\ comments[resp.id].ModeratedBy = "m1"
    /\ comments[resp.id].RejectionReason = "bulk"
    /\ Resolved(comments[resp.id].TenantID, comments[resp.id].ResourceType).RequireApproval

\* C15: in every reachable state the status of each stored comment is one
\* of pending, approved, rejected, spam; a moderation request, single or
\* bulk, whose status is not one of approved, rejected, spam is rejected as
\* a validation error and leaves the comments unchanged.
C15_StatusValid ==
    [][/\ \A id \in DOMAIN comments' : comments'[id].Status \in Statuses
       /\ resp'.op = "ModerateComment" =>
            \A id \in TargetIDs, req \in ModerationRequests :
                (req[1] \notin ModerationStatuses /\ AdminModerateComment(id, req[1], req[2], "m1")) =>
                    (resp'.err = "invalid_status" /\ comments' = comments)
       /\ resp'.op = "BulkModerate" =>
            \A ids \in BulkIDs, status \in RequestStatuses \ ModerationStatuses :
                BulkModerate(ids, status, "bulk", "m2") =>
                    (resp'.err # "" /\ comments' = comments)]_vars

\* C16: after any sequence of moderations a comment carries a rejection
\* reason only if its status is rejected: a moderation stores the supplied
\* reason only when the new status is rejected, and a comment moderated to
\* approved or spam has no rejection reason.
C16_ReasonOnlyWhenRejected ==
    [][/\ (resp'.op = "ModerateComment" /\ resp'.err = "") =>
            (comments'[resp'.id].RejectionReason # ""
                => comments'[resp'.id].Status = StatusRejected)
       /\ resp'.op = "BulkModerate" =>
            \A ids \in BulkIDs, status \in ModerationStatuses :
                BulkModerate(ids, status, "bulk", "m2") =>
                    \A i \in 1..Len(ids) :
                        (ids[i] \in DOMAIN comments /\ comments'[ids[i]].RejectionReason # "")
                            => comments'[ids[i]].Status = StatusRejected]_vars

\* C17: after a successful pin the comment has isPinned true, pinnedBy the
\* caller and pinnedAt set; after a successful unpin it has isPinned false
\* and pinnedBy and pinnedAt cleared; in every reachable state pinnedBy and
\* pinnedAt are set only on pinned comments.
C17_PinFieldsFollowFlag ==
    \A id \in DOMAIN comments :
        IF comments[id].IsPinned
        THEN comments[id].PinnedBy = "m1" /\ comments[id].PinnedAt # <<>>
        ELSE comments[id].PinnedBy = "" /\ comments[id].PinnedAt = <<>>

----------------------------------------------------------------------------
(* Claims about reads *)

\* The last operation was a list call that succeeded
Listed == resp.op = "ListComments" /\ resp.err = ""

\* The comments the same list request matches when it names status st
MatchesWithStatus(req, st) == ListFilter(comments, [req EXCEPT !.Status = st])

\* C8: a list call by a non-admin with no status filter returns only approved
\* comments; an admin call with no status filter is not restricted by
\* status: it counts the comments the request matches under every status
\* and returns them all when they fit on the page.
C8_NonAdminListApproved ==
    (Listed /\ resp.call[1].Status = "") =>
        LET req == resp.call[1]
            anyStatus == UNION {MatchesWithStatus(req, st) : st \in Statuses}
            returned == {resp.out[i] : i \in 1..Len(resp.out)}
        IN IF ~resp.call[2]
           THEN \A id \in returned : comments[id].Status = StatusApproved
           ELSE /\ resp.total = Cardinality(anyStatus)
                /\ returned \subseteq anyStatus
                /\ (RepoPage(req.Page) = 1 /\ resp.total <= RepoPageSize(req.PageSize))
                      => returned = anyStatus

\* A non-admin has just listed the root comments with no status filter: the
\* list holds a comment, and a root comment that is not approved is stored
C8_Witness ==
    /\ Listed /\ resp.call[1].Status = "" /\ ~resp.call[2]
    /\ resp.call[1].ParentID = NoID
    /\ resp.out # <<>>
    /\ \E id \in DOMAIN comments :
          /\ comments[id].ParentID = NoID /\ ~comments[id].IsDeleted
          /\ comments[id].Status # StatusApproved

\* The last operation was a successful read a non-admin can make
NonAdminRead ==
    /\ resp.err = ""
    /\ \/ resp.op \in {"GetComment", "GetReplies", "SearchComments"}
       \/ resp.op = "ListComments" /\ ~resp.call[2]

\* C9: when approval is required, no read a non-admin can make (get by ID,
\* list with any parameters, getReplies, search) returns a comment that is
\* not approved.
C9_NonApprovedInvisible ==
    NonAdminRead =>
        \A i \in 1..Len(resp.out) :
            LET c == comments[resp.out[i]]
            IN Resolved(c.TenantID, c.ResourceType).RequireApproval
                  => c.Status = StatusApproved

\* C30: a list call with no parentID returns only root comments; a list call
\* with a parentID returns only direct replies of that parent; a soft-deleted
\* comment is returned only when includeDeleted is set.
C30_ListParentFilter ==
    Listed =>
        LET req == resp.call[1]
        IN \A i \in 1..Len(resp.out) :
              LET c == comments[resp.out[i]]
              IN /\ req.ParentID = NoID => c.ParentID = NoID
                 /\ req.ParentID # NoID => c.ParentID = req.ParentID
                 /\ c.IsDeleted => req.IncludeDeleted

\* A page size clamped to [1, MaxPageSize], with the default below 1
ClampedPageSize(pageSize) ==
    IF pageSize < 1 THEN DefaultPageSize
    ELSE IF pageSize > MaxPageSize THEN MaxPageSize ELSE pageSize

\* ceil(total / size)
CeilDiv(total, size) == (total + size - 1) \div size

\* C31: for every list request the effective page size lies in [1,100] (a
\* size above 100 is clamped to 100, a size below 1 becomes the default 20),
\* at most that many comments are returned, and the reported pageSize is the
\* effective one and totalPages = ceil(total / effective page size).
C31_PageSizeClamped ==
    Listed =>
        LET req == resp.call[1]
            size == ClampedPageSize(req.PageSize)
        IN /\ size \in 1..MaxPageSize
           /\ Len(resp.out) <= size
           /\ ResponsePageSize(req.PageSize) = size
           /\ resp.pages = CeilDiv(resp.total, size)

\* The replies getReplies(parentID) has to find: the stored comments whose
\* parent is parentID, that are not soft-deleted and are approved
ApprovedReplies(parentID) ==
    {id \in DOMAIN comments : /\ comments[id].ParentID = parentID
                               /\ ~comments[id].IsDeleted
                               /\ comments[id].Status = StatusApproved}

\* C32: getReplies(parentID) returns only comments whose parent is parentID,
\* that are not soft-deleted and whose status is approved, in ascending
\* creation order; its total counts exactly those comments.
C32_RepliesApprovedOldestFirst ==
    (resp.op = "GetReplies" /\ resp.err = "") =>
        /\ \A i \in 1..Len(resp.out) : resp.out[i] \in ApprovedReplies(resp.call[1])
        /\ \A i, j \in 1..Len(resp.out) :
              i < j => /\ resp.out[i] # resp.out[j]
                       /\ comments[resp.out[i]].CreatedAt[1] <= comments[resp.out[j]].CreatedAt[1]
                       /\ resp.out[i] < resp.out[j]
        /\ resp.total = Cardinality(ApprovedReplies(resp.call[1]))

\* getReplies of comment 1 has just returned two replies while a third reply
\* of comment 1 is stored that is rejected or soft-deleted
C32_Witness ==
    /\ resp.op = "GetReplies" /\ resp.err = "" /\ resp.call[1] = 1
    /\ Len(resp.out) = 2
    /\ \E id \in DOMAIN comments :
          /\ comments[id].ParentID = 1
          /\ comments[id].IsDeleted \/ comments[id].Status # StatusApproved

----------------------------------------------------------------------------
(* Claims about the bad-word filter *)

\* The words of a sequence, in lower case
LowerWords(ws) == {ToLower(ws[i]) : i \in 1..Len(ws)}

\* C35: when the BadWordsFilter setting of the tenant's resource type is
\* false, create and update flag no words and the scan has no influence on
\* the status (a created comment is pending or approved by RequireApproval
\* alone, an edited one keeps its status); when it is true the words flagged
\* are the matches of the global list together with the custom words. The
\* settings are those that stand at the call.
C35_FilterToggle ==
    [][(resp'.op \in {"CreateComment", "UpdateComment"} /\ resp'.err = "")
          => LET c == comments'[resp'.id]
                 s == Resolved(c.TenantID, c.ResourceType)
                 created == resp'.id \notin DOMAIN comments
                 matches == BadWordMatches(c.Content, s)
             IN IF ~s.BadWordsFilter
                THEN /\ created => c.FlaggedWords = <<>>
                     /\ ~created => c.FlaggedWords \in {<<>>, comments[resp'.id].FlaggedWords}
                     /\ c.Status = IF created
                                    THEN (IF s.RequireApproval THEN StatusPending
                                          ELSE StatusApproved)
                                    ELSE comments[resp'.id].Status
                ELSE /\ matches \subseteq LowerWords(c.FlaggedWords)
                     /\ (created \/ matches # {}) => LowerWords(c.FlaggedWords) = matches]_vars

----------------------------------------------------------------------------
(* Claims about attachments *)

\* C34: the attachment settings are enforced: no comment is persisted by
\* create or update with any attachment when AllowAttachments is false, nor
\* with more attachments than MaxAttachments. Every step of a create or an
\* update that writes a comment writes one whose attachments the settings of
\* its tenant and resource type, as they stand at the call, allow.
C34_AttachmentsEnforced ==
    [][(resp'.op \in {"CreateComment", "UpdateComment"} /\ resp'.err = "")
          => LET c == comments'[resp'.id]
                 s == Resolved(c.TenantID, c.ResourceType)
             IN /\ ~s.AllowAttachments => c.Attachments = <<>>
                /\ Len(c.Attachments) <= s.MaxAttachments]_vars

----------------------------------------------------------------------------
(* Claims about the hard delete *)

\* C33: the admin hard-delete endpoint permanently removes the comment: after
\* it succeeds no record with that ID exists in the store, and a later get by
\* that ID reports not found. Every delete of the purge specification is a
\* call of the endpoint, and a record it has deleted is marked deleted.
C33_HardDeleteRemoves ==
    /\ (resp.op = "DeleteComment" /\ resp.err = "") => resp.id \notin DOMAIN comments
    /\ (resp.op = "GetComment" /\ resp.call[1] \in DOMAIN comments
            /\ comments[resp.call[1]].IsDeleted)
          => resp.err = "comment not found"

----------------------------------------------------------------------------
(* Claims about the settings race *)

\* The GetOrCreate calls for (tenantID, resourceType) that have returned
Returned(tenantID, resourceType) ==
    {p \in Callers : /\ calls[p].op = "GetOrCreate" /\ calls[p].pc = "done"
                     /\ calls[p].arg = <<tenantID, resourceType>>}

\* The stored settings records of (tenantID, resourceType)
Stored(tenantID, resourceType) ==
    {i \in 1..Len(settings) : /\ settings[i].TenantID = tenantID
                              /\ settings[i].ResourceType = resourceType}

\* C7 as stated: whenever concurrent first-time GetOrCreate calls for one key
\* have returned, exactly one record of the key is stored, every call
\* returned a record and no error, and the records returned are identical
\* in every field.
C7_IdenticalRecords ==
    \A rt \in RaceTypes :
        Returned("shop", rt) # {} =>
            /\ Cardinality(Stored("shop", rt)) = 1
            /\ \A p \in Returned("shop", rt) : Len(calls[p].ret) = 1
            /\ \A p, q \in Returned("shop", rt) : calls[p].ret = calls[q].ret

\* C37: soft deletion is permanent: once a comment is marked deleted, it is
\* stored and marked deleted in every later state, under any interleaving of
\* update, moderate, pin and counter operations; an update that started
\* before the delete does not un-delete it.
C37_SoftDeletePermanent ==
    [][\A id \in DOMAIN comments :
          comments[id].IsDeleted => (id \in DOMAIN comments' /\ comments'[id].IsDeleted)]_vars

----------------------------------------------------------------------------
(* Claims about tenancy *)

\* C38: every reply belongs to the same tenant and the same resource
\* (resource type, resource ID) as its parent: create never stores a reply
\* whose tenant or resource differs from the parent's.
C38_ReplySharesResource ==
    \A id \in DOMAIN comments :
        comments[id].ParentID \in DOMAIN comments =>
            LET parent == comments[comments[id].ParentID]
            IN /\ comments[id].TenantID = parent.TenantID
               /\ comments[id].ResourceType = parent.ResourceType
               /\ comments[id].ResourceID = parent.ResourceID

----------------------------------------------------------------------------
(* Claims about the edit history under concurrency *)

\* The updates of comment id that have returned; in the tracking
\* specification each of them has succeeded
UpdatesDone(id) ==
    {p \in Callers : /\ calls[p].op = "UpdateComment" /\ calls[p].pc = "done"
                     /\ calls[p].arg[1] = id}

\* C36: every successful edit is tracked: after k successful updates of one
\* comment, under any interleaving (two updates that overlap between read
\* and write included), the stored edit history has exactly k entries, and
\* it holds the pre-update content of each edit: the write of an update adds
\* the content the comment had before that write.
C36_EveryEditTracked ==
    [][\A id \in DOMAIN comments :
          /\ Len(comments'[id].EditHistory) = Cardinality(UpdatesDone(id)')
          /\ \A p \in Callers :
                (calls[p].pc = "write" /\ calls'[p].pc = "done" /\ calls[p].arg[1] = id)
                   => \E i \in 1..Len(comments'[id].EditHistory) :
                         comments'[id].EditHistory[i].Content = comments[id].Content]_vars

\* C39: getOrCreate always terminates: every call that has started returns,
\* it returns a settings record, and it does so after at most one retry: a
\* call that has fetched again after a uniqueness conflict makes no second
\* insert attempt, under any interleaving with other getOrCreate calls and
\* updates of the key.
C39_GetOrCreateTerminates ==
    /\ \A p \in Callers : (calls[p].pc # "idle") ~> (calls[p].pc = "done")
    /\ [](\A p \in Callers : calls[p].pc = "done" => Len(calls[p].ret) = 1)
    /\ [][\A p \in Callers : calls[p].retried => calls'[p].pc \in {"find", "done"}]_vars

\* A call has returned a record after a retry, and the record it returned was
\* created by an update
C39_Witness ==
    \E p \in Callers :
        /\ calls[p].pc = "done" /\ calls[p].retried
        /\ Len(calls[p].ret) = 1
        /\ calls[p].ret[1].CreatedAt = ZeroTime

----------------------------------------------------------------------------
(* Claims about the rate limiter *)

\* The requests of a key the limiter admitted among the first n it answered
Admitted(key, n) == {i \in 1..n : served[i].key = key /\ served[i].status = 200}

\* C40: the rate limiter admits, for each key, at most Max requests within
\* any time interval of length Window and answers every further request in
\* that interval with 429; a request that arrives more than Window after the
\* key's last admitted request (or is the key's first) is admitted, also when
\* rejected requests were made in between.
C40_RateLimited ==
    /\ \A i \in 1..Len(served) : served[i].status \in {200, 429}
    /\ \A i \in 1..Len(served), from \in 0..MaxTime :
          LET inWindow == {j \in Admitted(served[i].key, Len(served)) :
                              from <= served[j].at /\ served[j].at <= from + Window}
          IN Cardinality(inWindow) <= Max
    /\ \A i \in 1..Len(served) :
          LET before == Admitted(served[i].key, i - 1)
          IN (\A j \in before : served[i].at - served[j].at > Window)
                => served[i].status = 200

\* A key was admitted Max times, then rejected, and has just been admitted
\* again more than Window after its last admitted request, less than Window
\* after the rejected one
C40_Witness ==
    \E i \in 1..Len(served) :
        /\ i = Len(served) /\ served[i].status = 200
        /\ Cardinality(Admitted(served[i].key, i - 1)) = Max
        /\ \E j \in 1..(i - 1) :
              /\ served[j].key = served[i].key /\ served[j].status = 429
              /\ served[i].at - served[j].at < Window

----------------------------------------------------------------------------
(* Claims about calls in flight *)

\* C6: counter updates are never lost: the write that ends an update, a
\* moderation or a pin in flight leaves the reply count and the reaction
\* count that counter updates have stored since the call read the comment.
C6_CounterUpdatesKept ==
    [][\A p \in Callers :
          (calls[p].pc = "write" /\ calls'[p].pc = "done") =>
              /\ comments'[calls[p].arg[1]].ReplyCount = comments[calls[p].arg[1]].ReplyCount
              /\ comments'[calls[p].arg[1]].LikeCount = comments[calls[p].arg[1]].LikeCount]_vars

====
